---- MODULE Spec2Model ----
\* A model of kindle_to_anki's dictionary lookup client (src/dictionary_service.py):
\* the sliding-window RateLimiter and DictionaryService.get_definition /
\* get_definitions with their retry, backoff and error classification.
\*
\* Time is a discrete clock: the value time.time() returns, counted in ticks of
\* 1/TicksPerSecond second; it never runs backwards and time.sleep(d) lasts at
\* least d.  Under SpecLimiter calls come at any clock value and may overrun;
\* under Spec the clock advances by the sleeps alone (the transport and the
\* code between two sleeps take no time).  Strings are sequences of
\* one-character strings.
EXTENDS Integers, Sequences, FiniteSets, TLC

VARIABLES
    now,                      \* the clock: what time.time() returns
    max_requests_per_second,  \* RateLimiter.max_requests_per_second
    request_times,            \* RateLimiter.request_times (deque, oldest first)
    threads,                  \* the wait_if_needed calls that threads run step by
                              \* step: their positions and locals
    admitted,                 \* history: every timestamp the limiter recorded
    last_wait,                \* history: what the latest wait_if_needed call did
    max_retries,              \* DictionaryService.max_retries
    pc,                       \* position of the get_definition call in progress
    word,                     \* get_definition's argument
    cleaned_word,             \* get_definition's local cleaned_word
    attempt,                  \* get_definition's loop variable
    last_exception,           \* get_definition's local last_exception
    result,                   \* how the latest get_definition call ended
    log,                      \* history: the calls the current get_definition made
    entry_times,              \* history: request_times when get_definition was entered
    bpc,                      \* position of the get_definitions call in progress
    words,                    \* get_definitions' argument
    idx,                      \* get_definitions' loop position (1-based)
    definitions,              \* get_definitions' local definitions
    batch_result,             \* how the latest get_definitions call ended
    outcomes,                 \* history: per word, how its get_definition ended
    calls,                    \* number of calls the callers have made so far
    clock,                    \* the wall clock: what datetime.now() returns
    cache_file,               \* content of FrequentWordsManager.cache_file
    cache_expiry_days,        \* FrequentWordsManager.cache_expiry_days
    _frequent_words,          \* FrequentWordsManager._frequent_words
    fw_call,                  \* history: the latest call of the manager
    database,                 \* the Kindle's vocab.db: whether it exists, its WORDS rows
    last_access_file,         \* content of LastAccessManager.file_path
    kr_call,                  \* history: the latest call of the KindleReader
    call_times,               \* history: when the earlier successful calls were made
    returned_rows,            \* history: the rows whose words the calls so far returned
    main,                     \* position of main(), and history: the rows of the latest
                              \* run if its export ended with CSVExportError
    use_dictionary,           \* CSVExporter.use_dictionary
    csv_file,                 \* the output directory and the content of its words.csv
    xpc,                      \* position of the export_words_to_csv call in progress
    xwords,                   \* export_words_to_csv's argument
    xidx,                     \* export_words_to_csv's loop position (1-based)
    export_result,            \* how the latest export_words_to_csv call ended
    lookups                   \* history: per word, what _get_definition got and gave

limiterVars == <<now, max_requests_per_second, request_times, threads>>
lookupVars  == <<max_retries, pc, word, cleaned_word, attempt, last_exception,
                 result, log, entry_times>>
batchVars   == <<bpc, words, idx, definitions, batch_result, outcomes>>
historyL == <<admitted, last_wait>>
dictVars == <<limiterVars, historyL, lookupVars, batchVars, calls>>
managerVars == <<cache_file, cache_expiry_days, _frequent_words, fw_call>>
readerVars == <<database, last_access_file, kr_call, call_times, returned_rows, main>>
exportVars == <<use_dictionary, csv_file, xpc, xwords, xidx, export_result, lookups>>
appVars == <<clock, managerVars, readerVars, exportVars>>
vars == <<dictVars, appVars>>

----------------------------------------------------------------------------
\* Bounds of the model

TicksPerSecond == 2     \* clock resolution: ticks in the limiter's 1.0 second
MaxRate == 2            \* max_requests_per_second ranges over 1..MaxRate
MaxJitter == 1          \* a sleep or a call may take up to this many ticks longer
MaxWords == 2           \* longest list handed to get_definitions
MaxLimiterCalls == 5    \* wait_if_needed calls per behaviour of SpecLimiter
MaxThreadCalls == 3     \* wait_if_needed calls per behaviour of SpecThreads
MaxThreadTime == 3      \* SpecThreads follows the clock up to this value
MaxLimiterTime == 6     \* clock horizon (ticks) of SpecLimiter
MaxWordLen == 3         \* longest word handed to a lookup of SpecAnswer
TicksPerDay == 2        \* wall clock resolution: ticks in one day
MaxClock == 3           \* wall clock horizon (ticks)
MaxExpiryDays == 1      \* cache_expiry_days ranges over 0..MaxExpiryDays
MaxManagerCalls == 2    \* calls of the manager per behaviour of SpecCache
MaxReaderCalls == 2     \* calls of the KindleReader per behaviour of SpecReader

\* Program constants
OneSecond == TicksPerSecond     \* the literal 1.0 of wait_if_needed
DefaultMaxRetries == 3          \* DictionaryService.__init__(max_retries=3)
DefaultCacheExpiryDays == 30    \* FrequentWordsManager.__init__(cache_expiry_days=30)
TopCount == 1000                \* download_frequent_words: words[:1000]

None == "None"                  \* Python's None as a definition
NoneWord == <<"None">>          \* Python's None as a word (no character is "None")

----------------------------------------------------------------------------
\* RateLimiter

\* while self.request_times and current_time - self.request_times[0] >= 1.0:
\*     self.request_times.popleft()
RECURSIVE PruneStrictlyOlder(_, _)
PruneStrictlyOlder(times, current_time) ==
    IF times # <<>> /\ current_time - Head(times) > OneSecond
    THEN PruneStrictlyOlder(Tail(times), current_time)
    ELSE times
PruneAll(times, current_time) == <<>>
RECURSIVE Prune(_, _)
Prune(times, current_time) ==
    IF times # <<>> /\ current_time - Head(times) >= OneSecond
    THEN Prune(Tail(times), current_time)
    ELSE times

\* sleep_time = 1.0 - (current_time - self.request_times[0]), computed only when
\* len(self.request_times) >= self.max_requests_per_second; 0 when not computed.
SleepTimeNever(pruned, current_time, ceiling) == 0
SleepTimeShort(pruned, current_time, ceiling) ==
    IF Len(pruned) >= ceiling
    THEN OneSecond - (current_time - pruned[1]) - 1
    ELSE 0
SleepTimeFromNewest(pruned, current_time, ceiling) ==
    IF Len(pruned) >= ceiling
    THEN OneSecond - (current_time - pruned[Len(pruned)])
    ELSE 0
SleepTime(pruned, current_time, ceiling) ==
    IF Len(pruned) >= ceiling
    THEN OneSecond - (current_time - pruned[1])
    ELSE 0

\* One whole wait_if_needed call entered at clock value current_time; `extra` is
\* the time the call takes beyond its sleep.  Returns the deque and the clock at
\* return, with what the call did.
wait_if_needed(times, current_time, ceiling, extra) ==
    LET pruned     == Prune(times, current_time)
        sleep_time == SleepTime(pruned, current_time, ceiling)
        slept      == IF sleep_time > 0 THEN sleep_time ELSE 0
        recorded   == current_time + slept + extra
    IN  [request_times |-> Append(pruned, recorded),
         now           |-> recorded,
         entered       |-> current_time,
         pruned        |-> pruned,
         full          |-> Len(pruned) >= ceiling,
         sleep_time    |-> sleep_time,
         slept         |-> slept]

NoWait == [request_times |-> <<>>, now |-> 0, entered |-> 0, pruned |-> <<>>,
           full |-> FALSE, sleep_time |-> 0, slept |-> 0]

\* The limiter's variables after a wait_if_needed call that returned w.
LimiterAfter(w) ==
    /\ now' = w.now
    /\ request_times' = w.request_times
    /\ UNCHANGED <<max_requests_per_second, threads>>

\* Two threads that share one limiter
Threads == {1, 2}

\* A thread outside wait_if_needed
NotCalling == [pc |-> "idle", current_time |-> 0, sleep_time |-> 0, stamp |-> 0]

\* No thread has called yet: none is in a call, no two calls have overlapped,
\* no call has raised
NoThreads ==
    [of |-> [i \in Threads |-> NotCalling], overlapped |-> FALSE, raised |-> FALSE]

\* sleep_time = 1.0 - (current_time - self.request_times[0])
FrontSleepTimeNone(times, current_time) == 0
FrontSleepTime(times, current_time) == OneSecond - (current_time - times[1])

\* The threads after thread i moved to position p with the locals of `local`
ThreadAt(i, p, local) ==
    [threads EXCEPT !.of[i] = [local EXCEPT !.pc = p]]

\* The threads after the call of thread i ended with IndexError
ThreadRaised(i) ==
    [threads EXCEPT !.of[i] = NotCalling, !.raised = TRUE]

----------------------------------------------------------------------------
\* Strings

Whitespace == {" ", "\n"}
\* str.lower() on one character
LowerChar(c) == CASE c = "A" -> "a" [] c = "B" -> "b" [] OTHER -> c
lower(s) == [i \in 1..Len(s) |-> LowerChar(s[i])]

RECURSIVE lstrip(_)
lstrip(s) == IF s # <<>> /\ Head(s) \in Whitespace THEN lstrip(Tail(s)) ELSE s
RECURSIVE rstrip(_)
rstrip(s) ==
    IF s # <<>> /\ s[Len(s)] \in Whitespace THEN rstrip(SubSeq(s, 1, Len(s) - 1)) ELSE s
\* str.strip()
strip(s) == rstrip(lstrip(s))

\* urllib.parse.quote on one character: a space is percent-encoded, letters stay
QuoteChar(c) == IF c = " " THEN <<"%", "2", "0">> ELSE <<c>>
RECURSIVE quote(_)
quote(s) == IF s = <<>> THEN <<>> ELSE QuoteChar(Head(s)) \o quote(Tail(s))

\* cleaned = word.lower().strip()
CleanWithoutLower(w) == strip(w)
_clean_word(w) == strip(lower(w))

\* The words handed to get_definition: None, blank ones, and plain ones in
\* different casing and with surrounding whitespace.
WordInputs ==
    {NoneWord, <<>>, <<" ">>, <<"a">>, <<" ", "A">>}

\* Every word of up to MaxWordLen characters, and None
Chars == {" ", "a", "A"}
AllWords == {NoneWord} \cup UNION {[1..n -> Chars] : n \in 0..MaxWordLen}

----------------------------------------------------------------------------
\* JSON bodies.  A value is a list, a dict, a string, a number or null, tagged
\* by t.

JList(items) == [t |-> "list", items |-> items]
JDict(fields) == [t |-> "dict", fields |-> fields]
JStr(text) == [t |-> "str", text |-> text]
JNum(n) == [t |-> "num", n |-> n]
JNull == [t |-> "null"]

\* Python truthiness of a JSON value (`not data`, `entry["meanings"]` as a condition)
Truthy(v) ==
    CASE v.t = "list" -> v.items # <<>>
      [] v.t = "dict" -> DOMAIN v.fields # {}
      [] v.t = "str"  -> v.text # ""
      [] v.t = "num"  -> v.n # 0
      [] OTHER        -> FALSE

\* One subscript or membership test: the value it yields, or the exception it
\* raises.
Ok(v) == [exc |-> "none", v |-> v]
Fail(exc) == [exc |-> exc, v |-> JNull]

\* `key in text` and `text[0]` for the strings the bodies below hold
ContainsText(key, text) ==
    text = key \/ (key = "definition" /\ text = "definitions")
FirstChar(text) ==
    CASE text \in {"definition", "definitions"} -> "d"
      [] text = "meanings" -> "m"
      [] text = "word" -> "w"
      [] OTHER -> text

\* `key in v`: a key of a dict, an item of a list, a substring of a string;
\* None and numbers are not iterable.
Contains(v, key) ==
    CASE v.t = "dict" -> Ok(key \in DOMAIN v.fields)
      [] v.t = "list" -> Ok(\E i \in 1..Len(v.items) :
                               v.items[i].t = "str" /\ v.items[i].text = key)
      [] v.t = "str"  -> Ok(ContainsText(key, v.text))
      [] OTHER        -> Fail("TypeError")

\* `v[key]` for a string key
Index(v, key) ==
    IF v.t = "dict"
    THEN IF key \in DOMAIN v.fields THEN Ok(v.fields[key]) ELSE Fail("KeyError")
    ELSE Fail("TypeError")

\* `v[0]`
Index0(v) ==
    CASE v.t = "list" -> IF v.items # <<>> THEN Ok(v.items[1]) ELSE Fail("IndexError")
      [] v.t = "dict" -> Fail("KeyError")
      [] v.t = "str"  -> IF v.text # "" THEN Ok(JStr(FirstChar(v.text)))
                                        ELSE Fail("IndexError")
      [] OTHER        -> Fail("TypeError")

\* `if key in v and v[key]: x = v[key][0]`: x, or the test is false, or a step
\* raises.
Found(v) == [exc |-> "none", found |-> TRUE, v |-> v]
Missing == [exc |-> "none", found |-> FALSE, v |-> JNull]
Broken(exc) == [exc |-> exc, found |-> FALSE, v |-> JNull]
FirstUnder(v, key) ==
    LET c == Contains(v, key) IN
    IF c.exc # "none" THEN Broken(c.exc)
    ELSE IF ~c.v THEN Missing
    ELSE LET x == Index(v, key) IN
         IF x.exc # "none" THEN Broken(x.exc)
         ELSE IF ~Truthy(x.v) THEN Missing
         ELSE LET y == Index0(x.v) IN
              IF y.exc # "none" THEN Broken(y.exc) ELSE Found(y.v)

\* What the caller gets for the JSON value under "definition": a text as it is,
\* null as None, a number as it is (written by its digits).
AsDefinition(v) ==
    CASE v.t = "str" -> v.text
      [] v.t = "num" -> ToString(v.n)
      [] OTHER       -> None

\* What _extract_definition ends with: a returned value or a raised exception
Done(value) == [exc |-> "none", value |-> value]
Threw(exc) == [exc |-> exc, value |-> None]

\* The try block of _extract_definition
TryExtract(data) ==
    IF ~Truthy(data) \/ data.t # "list" THEN Done(None)
    ELSE
        LET meaning == FirstUnder(data.items[1], "meanings") IN
        IF meaning.exc # "none" THEN Threw(meaning.exc)
        ELSE IF ~meaning.found THEN Done(None)
        ELSE
            LET definition_obj == FirstUnder(meaning.v, "definitions") IN
            IF definition_obj.exc # "none" THEN Threw(definition_obj.exc)
            ELSE IF ~definition_obj.found THEN Done(None)
            ELSE
                LET c == Contains(definition_obj.v, "definition") IN
                IF c.exc # "none" THEN Threw(c.exc)
                ELSE IF ~c.v THEN Done(None)
                ELSE LET d == Index(definition_obj.v, "definition") IN
                     IF d.exc # "none" THEN Threw(d.exc)
                     ELSE Done(AsDefinition(d.v))

\* except (KeyError, IndexError, TypeError): return None
CaughtWithoutTypeError == {"KeyError", "IndexError"}
Caught == {"KeyError", "IndexError", "TypeError"}

_extract_definition(data) ==
    LET r == TryExtract(data) IN
    IF r.exc \in Caught THEN Done(None) ELSE r

\* The bodies the service answers a successful request with.  A body is
\* described level by level along body[0]["meanings"][0]["definitions"][0]
\* ["definition"]: "good" where the value has the documented structure and goes
\* one level deeper, otherwise the kind of value that stands there instead.
PathDepth == 7
JunkKinds ==
    {"null", "zero", "num", "str", "keystr", "list0", "keylist", "dict0", "otherdict"}
LeafKinds == {"text", "empty", "null", "num"}

\* The key the code looks up at or below a level
KeyAt(level) ==
    CASE level \in {1, 2} -> "meanings"
      [] level \in {3, 4} -> "definitions"
      [] OTHER            -> "definition"

Junk(k, key) ==
    CASE k = "null"      -> JNull
      [] k = "zero"      -> JNum(0)
      [] k = "num"       -> JNum(5)
      [] k = "str"       -> JStr("word")
      [] k = "keystr"    -> JStr(key)
      [] k = "list0"     -> JList(<<>>)
      [] k = "keylist"   -> JList(<<JStr(key)>>)
      [] k = "dict0"     -> JDict(<<>>)
      [] OTHER           -> JDict("other" :> JNull)

Leaf(k) ==
    CASE k = "text"  -> JStr("X")
      [] k = "empty" -> JStr("")
      [] k = "num"   -> JNum(5)
      [] OTHER       -> JNull

Good(n) == [i \in 1..n |-> "good"]
Shapes ==
    UNION {{Good(n - 1) \o <<k>> : k \in JunkKinds} : n \in 1..(PathDepth - 1)}
    \cup {Good(PathDepth - 1) \o <<k>> : k \in LeafKinds}

RECURSIVE Build(_, _)
Build(shape, level) ==
    IF level = PathDepth THEN Leaf(shape[level])
    ELSE IF shape[level] # "good" THEN Junk(shape[level], KeyAt(level))
    ELSE IF level \in {1, 3, 5} THEN JList(<<Build(shape, level + 1)>>)
    ELSE JDict(KeyAt(level) :> Build(shape, level + 1))

\* response.json() of a body
Body(b) == Build(b, 1)

\* The two bodies of the service's documented answers: an entry with a
\* definition, and the empty list
FullBody == Good(PathDepth - 1) \o <<"text">>
EmptyBody == <<"list0">>
NoBody == <<>>
Bodies == {FullBody, EmptyBody}

----------------------------------------------------------------------------
\* The transport (requests.Session.get) and its failures

\* What one session.get call does: it raises with no response (status_code 0:
\* timeout, connection reset), or returns a response with a status and a body.
ConnectionFailure == [status_code |-> 0, body |-> NoBody]
NoOutcome == [status_code |-> -1, body |-> NoBody]
ErrorStatuses == {400, 403, 429, 503}
TransportOutcomes ==
    {ConnectionFailure}
    \cup {[status_code |-> s, body |-> NoBody] : s \in ErrorStatuses \cup {404}}
    \cup {[status_code |-> 200, body |-> b] : b \in Bodies}

\* The same with a successful response carrying a body of any shape
AnyOutcomes ==
    TransportOutcomes \cup {[status_code |-> 200, body |-> b] : b \in Shapes}

\* A requests.RequestException: the status of the response it carries (0 when
\* e.response is None) and the attempt that raised it.
NoException == [exc |-> "None", status_code |-> 0, attempt |-> -1]
HTTPError(status, att) == [exc |-> "HTTPError", status_code |-> status, attempt |-> att]
ConnectionError(att) == [exc |-> "ConnectionError", status_code |-> 0, attempt |-> att]

\* response.raise_for_status(): HTTPError carrying the response for 4xx and 5xx
RaiseWithoutResponse(oc, att) ==
    IF 400 <= oc.status_code /\ oc.status_code < 600
    THEN HTTPError(0, att)
    ELSE NoException
raise_for_status(oc, att) ==
    IF 400 <= oc.status_code /\ oc.status_code < 600
    THEN HTTPError(oc.status_code, att)
    ELSE NoException

\* What the try block raises for an outcome that is not a 404 (NoException: none)
Raised(oc, att) ==
    IF oc = ConnectionFailure THEN ConnectionError(att)
    ELSE LET early == IF 400 <= oc.status_code /\ oc.status_code < 500
                         /\ oc.status_code # 429
                      THEN raise_for_status(oc, att)
                      ELSE NoException
         IN  IF early # NoException THEN early ELSE raise_for_status(oc, att)

\* if response.status_code == 404: return None
IsNotFoundNever(oc) == FALSE
IsNotFound(oc) == oc # ConnectionFailure /\ oc.status_code = 404

\* The except block's test for a client error (4xx except 429): such a failure
\* breaks out of the retry loop.
IsClientErrorAbove400(e) ==
    /\ e.status_code # 0
    /\ 400 < e.status_code /\ e.status_code < 500
    /\ e.status_code # 429
IsClientErrorWith429(e) ==
    /\ e.status_code # 0
    /\ 400 <= e.status_code /\ e.status_code < 500
IsClientError(e) ==
    /\ e.status_code # 0
    /\ 400 <= e.status_code /\ e.status_code < 500
    /\ e.status_code # 429

\* if attempt == self.max_retries: break
IsLastAttemptEarly(att, retries) == att + 1 >= retries
IsLastAttemptLate(att, retries) == att = retries + 1
IsLastAttempt(att, retries) == att = retries

\* for attempt in range(self.max_retries + 1): whether the loop has a turn att
InRange(att, retries) == 0 <= att /\ att < retries + 1

\* delay = 2**attempt, in seconds
BackoffLinear(att) == att + 1
BackoffDelay(att) == 2 ^ att

----------------------------------------------------------------------------
\* DictionaryService.get_definition

AcquireEvent(w) == [ev |-> "acquire", d |-> w.slept, oc |-> NoOutcome, url |-> <<>>]
GetEvent(url, oc) == [ev |-> "get", d |-> 0, oc |-> oc, url |-> url]
SleepEvent(delay) == [ev |-> "sleep", d |-> delay, oc |-> NoOutcome, url |-> <<>>]

NoResult == [kind |-> "none", value |-> None, cause |-> NoException]
Returned(v) == [kind |-> "return", value |-> v, cause |-> NoException]
RaisedValueError == [kind |-> "ValueError", value |-> None, cause |-> NoException]
RaisedServiceError(e) ==
    [kind |-> "DictionaryServiceError", value |-> None, cause |-> e]
\* return definition, or the exception _extract_definition let through
Outcome(r) ==
    IF r.exc = "none" THEN Returned(r.value)
    ELSE [kind |-> r.exc, value |-> None, cause |-> NoException]

\* if word is None: raise ValueError; if not word.strip(): raise ValueError
IsInvalidWordEmptyOnly(w) == w = NoneWord \/ w = <<>>
IsInvalidWord(w) == w = NoneWord \/ strip(w) = <<>>

\* except requests.RequestException as e: last_exception = e
RememberFirst(previous, e) == IF previous = NoException THEN e ELSE previous
Remember(previous, e) == e

\* get_definition(w) from its entry to its first transport call: it raises
\* ValueError, or cleans the word, passes the rate limiter and starts the retry
\* loop.
EnterGetDefinition(w) ==
    /\ word' = w
    /\ entry_times' = request_times
    /\ attempt' = 0
    /\ last_exception' = NoException
    /\ UNCHANGED max_retries
    /\ IF IsInvalidWord(w)
       THEN /\ result' = RaisedValueError
            /\ pc' = "done"
            /\ log' = <<>>
            /\ cleaned_word' = <<>>
            /\ UNCHANGED limiterVars
       ELSE LET w1 == wait_if_needed(request_times, now,
                                     max_requests_per_second, 0)
            IN  /\ cleaned_word' = _clean_word(w)
                /\ LimiterAfter(w1)
                /\ log' = <<AcquireEvent(w1)>>
                /\ IF InRange(0, max_retries)
                   THEN result' = NoResult /\ pc' = "request"
                   ELSE result' = RaisedServiceError(NoException) /\ pc' = "done"

\* One turn of the retry loop, from session.get to the return, the raise or
\* the start of the next turn; the transport answers oc.
Attempt(oc) ==
    LET url  == quote(cleaned_word)
        log1 == Append(log, GetEvent(url, oc))
        e    == Raised(oc, attempt)
    IN
    /\ UNCHANGED <<max_retries, word, cleaned_word, entry_times>>
    /\ IF IsNotFound(oc)
       THEN /\ result' = Returned(None)
            /\ pc' = "done"
            /\ log' = log1
            /\ UNCHANGED <<attempt, last_exception, limiterVars>>
       ELSE IF e = NoException
       THEN /\ result' = Outcome(_extract_definition(Body(oc.body)))
            /\ pc' = "done"
            /\ log' = log1
            /\ UNCHANGED <<attempt, last_exception, limiterVars>>
       ELSE /\ last_exception' = Remember(last_exception, e)
            /\ IF IsClientError(e) \/ IsLastAttempt(attempt, max_retries)
               THEN /\ result' = RaisedServiceError(last_exception')
                    /\ pc' = "done"
                    /\ log' = log1
                    /\ UNCHANGED <<attempt, limiterVars>>
               ELSE LET delay == BackoffDelay(attempt)
                        w1    == wait_if_needed(request_times,
                                                now + delay * OneSecond,
                                                max_requests_per_second, 0)
                    IN  /\ LimiterAfter(w1)
                        /\ log' = log1 \o <<SleepEvent(delay), AcquireEvent(w1)>>
                        /\ attempt' = attempt + 1
                        /\ IF InRange(attempt + 1, max_retries)
                           THEN pc' = "request" /\ UNCHANGED result
                           ELSE /\ result' = RaisedServiceError(last_exception')
                                /\ pc' = "done"

\* The lookup's variables once the caller has taken the result
LookupIdle ==
    /\ pc' = "idle"
    /\ word' = <<>>
    /\ cleaned_word' = <<>>
    /\ attempt' = 0
    /\ last_exception' = NoException
    /\ result' = NoResult
    /\ log' = <<>>
    /\ entry_times' = <<>>
    /\ UNCHANGED max_retries

----------------------------------------------------------------------------
\* DictionaryService.get_definitions

\* What a caller may hand over instead of a list
NotAList == <<<<"NotAList">>>>
WordLists == UNION {[1..n -> WordInputs] : n \in 0..MaxWords}

NoBatchResult == [kind |-> "none", value |-> <<>>]

\* except DictionaryServiceError: the only failure of a word the loop absorbs
AbsorbedAnyError(res) == res.kind # "return"
Absorbed(res) == res.kind = "DictionaryServiceError"

\* The slot a finished lookup adds to definitions
SlotKeepsPrevious(res) == IF res.kind = "return" THEN res.value ELSE "X"
Slot(res) == IF res.kind = "return" THEN res.value ELSE None

BatchIdle ==
    /\ bpc' = "idle"
    /\ words' = <<>>
    /\ idx' = 0
    /\ definitions' = <<>>
    /\ batch_result' = NoBatchResult
    /\ outcomes' = <<>>

----------------------------------------------------------------------------
\* The wall clock and ISO date strings

Digit(n) ==
    CASE n = 0 -> "0" [] n = 1 -> "1" [] n = 2 -> "2" [] n = 3 -> "3" [] n = 4 -> "4"
      [] n = 5 -> "5" [] n = 6 -> "6" [] n = 7 -> "7" [] n = 8 -> "8" [] OTHER -> "9"
IsDigit(c) == \E n \in 0..9 : Digit(n) = c
DigitValue(c) == CHOOSE n \in 0..9 : Digit(n) = c

\* datetime.isoformat(): fixed-width fields, then the sub-second part, which is
\* left out when it is zero.  A date of the model has one two-digit field, the
\* whole days, and the ticks within the day as its last part.
isoformat(t) ==
    <<Digit((t \div TicksPerDay) \div 10), Digit((t \div TicksPerDay) % 10)>>
    \o (IF t % TicksPerDay = 0 THEN <<>> ELSE <<".", Digit(t % TicksPerDay)>>)

\* datetime.fromisoformat(s): ValueError unless s has the format
IsIsoFormat(s) ==
    /\ Len(s) \in {2, 4}
    /\ IsDigit(s[1]) /\ IsDigit(s[2])
    /\ Len(s) = 4 => (s[3] = "." /\ IsDigit(s[4]))
fromisoformat(s) ==
    (DigitValue(s[1]) * 10 + DigitValue(s[2])) * TicksPerDay
    + (IF Len(s) = 4 THEN DigitValue(s[4]) ELSE 0)

\* Comparison of two str values: by code point, a proper prefix first
CharCode(c) ==
    CASE c = " " -> 32
      [] c = "." -> 46
      [] IsDigit(c) -> 48 + DigitValue(c)
      [] c = "A" -> 65
      [] c = "B" -> 66
      [] c = "a" -> 97
      [] c = "b" -> 98
      [] OTHER -> 120
RECURSIVE StrLess(_, _)
StrLess(a, b) ==
    IF b = <<>> THEN FALSE
    ELSE IF a = <<>> THEN TRUE
    ELSE IF Head(a) = Head(b) THEN StrLess(Tail(a), Tail(b))
    ELSE CharCode(Head(a)) < CharCode(Head(b))

----------------------------------------------------------------------------
\* FrequentWordsManager

Range(seq) == {seq[i] : i \in 1..Len(seq)}
Min(a, b) == IF a < b THEN a ELSE b

\* The words of the model
AB == <<"a", "b">>
UpperAB == <<"A", "b">>
BA == <<"b", "a">>
BB == <<"b", "b">>

\* The cache file: absent, or text that is no JSON ("garbage"), or JSON whose
\* top level is a list or a dict; for a dict, its "last_updated" and "words".
AbsentDate == [t |-> "absent", s |-> <<>>]
NumberDate == [t |-> "num", s |-> <<>>]
TextDate(s) == [t |-> "str", s |-> s]
AbsentWords == [t |-> "absent", v |-> <<>>]
NullWords == [t |-> "null", v |-> <<>>]
ListOfWords(v) == [t |-> "list", v |-> v]
NoCacheFile ==
    [exists |-> FALSE, top |-> "none", last_updated |-> AbsentDate, words |-> AbsentWords]
GarbageCache ==
    [exists |-> TRUE, top |-> "garbage", last_updated |-> AbsentDate, words |-> AbsentWords]
JsonListCache ==
    [exists |-> TRUE, top |-> "list", last_updated |-> AbsentDate, words |-> AbsentWords]
DictCache(date, ws) ==
    [exists |-> TRUE, top |-> "dict", last_updated |-> date, words |-> ws]

\* The files a manager may find: the ones above, and dicts with any
\* "last_updated" (none, a number, a text that is no date, a date) and any "words"
CachedLists == {<<>>, <<AB>>}
CacheFiles ==
    {NoCacheFile, GarbageCache, JsonListCache}
    \cup {DictCache(d, w) :
            d \in {AbsentDate, NumberDate, TextDate(<<"b", "a", "d">>)}
                  \cup {TextDate(isoformat(t)) : t \in 0..MaxClock},
            w \in {AbsentWords, NullWords} \cup {ListOfWords(l) : l \in CachedLists}}

\* save_words_to_cache(words): json.dump of the words and of now().isoformat()
save_words_to_cache(ws, nowt) == DictCache(TextDate(isoformat(nowt)), ListOfWords(ws))

\* What load_words_from_cache ends with: a list, None, or an exception
Loaded(v) == [exc |-> "none", some |-> TRUE, v |-> v]
NotLoaded == [exc |-> "none", some |-> FALSE, v |-> <<>>]
LoadRaised(exc) == [exc |-> exc, some |-> FALSE, v |-> <<>>]

\* if datetime.now() > expiry_date
IsExpired(last_updated, nowt, days) == nowt > last_updated + days * TicksPerDay

\* The try block of load_words_from_cache
TryLoad(cache, nowt, days) ==
    IF cache.top = "garbage" THEN LoadRaised("JSONDecodeError")
    ELSE IF cache.top # "dict" THEN LoadRaised("TypeError")
    ELSE IF cache.last_updated.t = "absent" THEN LoadRaised("KeyError")
    ELSE IF cache.last_updated.t # "str" THEN LoadRaised("TypeError")
    ELSE IF ~IsIsoFormat(cache.last_updated.s) THEN LoadRaised("ValueError")
    ELSE IF IsExpired(fromisoformat(cache.last_updated.s), nowt, days) THEN NotLoaded
    ELSE IF cache.words.t = "absent" THEN LoadRaised("KeyError")
    ELSE IF cache.words.t = "null" THEN NotLoaded
    ELSE Loaded(cache.words.v)

\* except (json.JSONDecodeError, KeyError, ValueError): return None
CacheCaught == {"JSONDecodeError", "KeyError", "ValueError"}

load_words_from_cache(cache, nowt, days) ==
    IF ~cache.exists THEN NotLoaded
    ELSE LET r == TryLoad(cache, nowt, days) IN
         IF r.exc \in CacheCaught THEN NotLoaded ELSE r

\* What requests.get answers the download with: a failure, or the lines of the
\* word list
DownloadFailure == [ok |-> FALSE, lines |-> <<>>]
RawLists == {<<>>, <<<<" ", "A", "b">>, <<"a">>, <<"b", "a">>>>}
Responses == {DownloadFailure} \cup {[ok |-> TRUE, lines |-> l] : l \in RawLists}

\* The answers to the downloads a KindleReader starts
ReaderResponses == {r \in Responses : r.ok => r.lines # <<>>}

\* download_frequent_words(): line.strip().lower() of every line, without the
\* empty and the one-character ones, the first 1000 of them
download_frequent_words(response) ==
    IF ~response.ok THEN [exc |-> "Exception", v |-> <<>>]
    ELSE LET cleaned == [i \in 1..Len(response.lines) |-> lower(strip(response.lines[i]))]
             kept    == SelectSeq(cleaned, LAMBDA w : w # <<>> /\ Len(w) > 1)
         IN  [exc |-> "none", v |-> SubSeq(kept, 1, Min(Len(kept), TopCount))]

\* What a call of the manager ends with: the exception raised ("none": it
\* returned value), the cache file and the loaded set after it, and whether it
\* called download_frequent_words.
ManagerEnd(exc, value, cache, fwords, downloaded) ==
    [exc |-> exc, value |-> value, cache |-> cache, fwords |-> fwords,
     downloaded |-> downloaded]

get_frequent_words(cache, fwords, nowt, days, response) ==
    LET cached_words == load_words_from_cache(cache, nowt, days) IN
    IF cached_words.exc # "none"
    THEN ManagerEnd(cached_words.exc, <<>>, cache, fwords, FALSE)
    ELSE IF cached_words.some
    THEN ManagerEnd("none", cached_words.v, cache, Range(cached_words.v), FALSE)
    ELSE LET ws == download_frequent_words(response) IN
         IF ws.exc # "none"
         THEN ManagerEnd(ws.exc, <<>>, cache, fwords, TRUE)
         ELSE ManagerEnd("none", ws.v, save_words_to_cache(ws.v, nowt), Range(ws.v), TRUE)

\* if word.lower() not in self._frequent_words
IsKeptExactCase(w, fwords) == w \notin fwords
IsKept(w, fwords) == lower(w) \notin fwords

filter_frequent_words(cache, fwords, nowt, days, response, ws) ==
    LET g == IF fwords = {}
             THEN get_frequent_words(cache, fwords, nowt, days, response)
             ELSE ManagerEnd("none", <<>>, cache, fwords, FALSE)
    IN  IF g.exc # "none" THEN g
        ELSE [g EXCEPT !.value = SelectSeq(ws, LAMBDA w : IsKept(w, g.fwords))]

\* The lists handed to filter_frequent_words
FilterInputs ==
    {<<>>, <<AB>>, <<UpperAB, BB>>, <<BB, UpperAB, BB>>, <<BB, AB, BA, UpperAB>>}

NoManagerCall ==
    [op |-> "none", at |-> 0, before |-> NoCacheFile, had |-> {}, arg |-> <<>>,
     end |-> ManagerEnd("none", <<>>, NoCacheFile, {}, FALSE)]
ManagerCall(op, arg, end) ==
    [op |-> op, at |-> clock, before |-> cache_file, had |-> _frequent_words,
     arg |-> arg, end |-> end]

----------------------------------------------------------------------------
\* KindleReader and LastAccessManager

\* A row of the WORDS table: its word (NoneWord: NULL) and its timestamp
Row(w, t) == [word |-> w, timestamp |-> t]
NoDatabase == [exists |-> FALSE, rows |-> {}]

\* SELECT word, timestamp FROM WORDS WHERE word IS NOT NULL AND timestamp > 0
Where(rows) == {r \in rows : r.word # NoneWord /\ r.timestamp > 0}

\* ... ORDER BY timestamp DESC: the rows in any order that puts no row before
\* a later one
QueryResults(rows) ==
    LET n == Cardinality(Where(rows)) IN
    {q \in [1..n -> Where(rows)] :
        /\ \A i, j \in 1..n : i # j => q[i] # q[j]
        /\ \A i \in 1..(n - 1) : q[i].timestamp >= q[i + 1].timestamp}

\* if word and timestamp: {"word": word, "timestamp": dt.isoformat()}
words_data(q) ==
    LET kept == SelectSeq(q, LAMBDA r : r.word # <<>> /\ r.timestamp # 0) IN
    [i \in 1..Len(kept) |->
        [word |-> kept[i].word, timestamp |-> isoformat(kept[i].timestamp)]]

\* read_last_access_date(): the stripped content, None for an empty file
NoDate == <<"None">>
read_last_access_date(file) == IF strip(file) = <<>> THEN NoDate ELSE strip(file)

\* write_last_access_date(date)
WriteNothing(date) == <<>>
write_last_access_date(date) == date

\* if item["timestamp"] > last_access_date
IsLaterOrSame(timestamp, last_access_date) == ~StrLess(timestamp, last_access_date)
IsLater(timestamp, last_access_date) == StrLess(last_access_date, timestamp)

\* AnkiReader.filter_words_against_anki(words)
filter_words_against_anki(ws) == ws

\* What a call of the reader ends with: the exception raised ("none": it
\* returned value), and the last access file and the manager after it.
ReaderEnd(exc, value, file, m) ==
    [exc |-> exc, value |-> value, file |-> file, cache |-> m.cache,
     fwords |-> m.fwords]

\* What _read_kindle_database() meets once the file exists: the rows of the
\* query, or a sqlite3.Error, which it raises again as an Exception
Reads(rows) ==
    {[error |-> FALSE, rows |-> q] : q \in QueryResults(rows)}
        \cup {[error |-> TRUE, rows |-> <<>>]}

\* The last access file after get_words_since_last_access(): the write is its
\* last statement but one, reached when nothing before it raised
FileAfterAnyEnd(exc, file, nowt) == write_last_access_date(isoformat(nowt))
FileAfter(exc, file, nowt) ==
    IF exc = "none" THEN write_last_access_date(isoformat(nowt)) ELSE file

\* get_words_since_last_access(), the database read ending as read does
get_words_since_last_access(db, read, file, cache, fwords, nowt, days, response) ==
    IF ~db.exists
    THEN ReaderEnd("FileNotFoundError", <<>>, FileAfter("FileNotFoundError", file, nowt),
                   ManagerEnd("none", <<>>, cache, fwords, FALSE))
    ELSE IF read.error
    THEN ReaderEnd("Exception", <<>>, FileAfter("Exception", file, nowt),
                   ManagerEnd("none", <<>>, cache, fwords, FALSE))
    ELSE
        LET all_words == words_data(read.rows)
            last_access_date == read_last_access_date(file)
            selected ==
                IF last_access_date = NoDate THEN all_words
                ELSE SelectSeq(all_words,
                               LAMBDA item : IsLater(item.timestamp, last_access_date))
            ws == [i \in 1..Len(selected) |-> selected[i].word]
            filtered_words == filter_frequent_words(cache, fwords, nowt, days, response, ws)
        IN  IF filtered_words.exc # "none"
            THEN ReaderEnd(filtered_words.exc, <<>>,
                           FileAfter(filtered_words.exc, file, nowt), filtered_words)
            ELSE ReaderEnd("none", filter_words_against_anki(filtered_words.value),
                           FileAfter("none", file, nowt), filtered_words)

\* random.sample(population, k): k elements at distinct positions, in any order
sample(population, k) ==
    {[i \in 1..k |-> population[f[i]]] :
        f \in {g \in [1..k -> 1..Len(population)] :
                  \A i, j \in 1..k : i # j => g[i] # g[j]}}

\* get_random_test_words(count): what it ends with, and the lists it may return
get_random_test_words(db, read, file, cache, fwords, nowt, days, response) ==
    IF ~db.exists
    THEN ReaderEnd("FileNotFoundError", <<>>, file,
                   ManagerEnd("none", <<>>, cache, fwords, FALSE))
    ELSE IF read.error
    THEN ReaderEnd("Exception", <<>>, file,
                   ManagerEnd("none", <<>>, cache, fwords, FALSE))
    ELSE
        LET all_words == words_data(read.rows)
            word_list == [i \in 1..Len(all_words) |-> all_words[i].word]
            filtered_words == filter_frequent_words(cache, fwords, nowt, days, response,
                                                    word_list)
        IN  IF filtered_words.exc # "none"
            THEN ReaderEnd(filtered_words.exc, <<>>, file, filtered_words)
            ELSE ReaderEnd("none", filter_words_against_anki(filtered_words.value),
                           file, filtered_words)
RandomTestWords(final_words, count) ==
    IF count >= Len(final_words) THEN {final_words} ELSE sample(final_words, count)

\* The rows a call would select: those read whose time is later than the date
\* the last access file holds, every row read when it holds none
Pending(rows, file) ==
    {r \in Where(rows) :
        /\ r.word # <<>>
        /\ read_last_access_date(file) # NoDate
            => IsLater(isoformat(r.timestamp), read_last_access_date(file))}

\* The record of a call: when it was made, how it ended, and how the call
\* before it ended
Before(call) == [op |-> call.op, exc |-> call.exc]
NoReaderCall ==
    [op |-> "none", at |-> 0, exc |-> "none", value |-> <<>>,
     prev |-> [op |-> "none", exc |-> "none"]]

\* get_random_test_words(count=10), and the count of a caller who asks for one
DefaultCount == 10
Counts == {1, DefaultCount}

\* The words the Kindle logs, and rows the query or the reader skips: a NULL
\* word, an empty one and a timestamp of 0
DbWords == {BB, BA}
SkippedRows == {Row(NoneWord, 1), Row(<<>>, 2), Row(AB, 0)}

\* What the last access file may hold before the first call: blanks, or a date
\* written by an earlier run, with or without a trailing blank
LastAccessFiles ==
    {<<" ">>, isoformat(1), isoformat(TicksPerDay) \o <<" ">>}

----------------------------------------------------------------------------
\* CSVExporter

\* A text is a sequence of characters; a literal of one of the code's f-strings
\* is one element of it, as is a definition the dictionary returned.

\* re.sub(r"\s+", " ", s): every run of whitespace becomes one space
RECURSIVE CollapseWhitespace(_)
CollapseWhitespace(s) ==
    IF s = <<>> THEN <<>>
    ELSE IF Head(s) \in Whitespace
         THEN <<" ">> \o CollapseWhitespace(lstrip(s))
         ELSE <<Head(s)>> \o CollapseWhitespace(Tail(s))

\* cleaned = re.sub(r"\s+", " ", word.strip())
CleanStripOnly(w) == strip(w)
_clean_word_for_csv(w) == CollapseWhitespace(strip(w))

\* What _validate_words ends with: it returns, or raises ValueError
Valid == [exc |-> "none", msg |-> ""]
InvalidWords(msg) == [exc |-> "ValueError", msg |-> msg]

\* for word in words: a non-string (NoneWord) or a blank word raises
RECURSIVE ValidateNotEmpty(_, _)
ValidateNotEmpty(ws, i) ==
    IF i > Len(ws) THEN Valid
    ELSE IF ws[i] = NoneWord THEN InvalidWords("All words must be strings")
    ELSE IF ws[i] = <<>> THEN InvalidWords("Words cannot be empty")
    ELSE ValidateNotEmpty(ws, i + 1)
RECURSIVE ValidateFrom(_, _)
ValidateFrom(ws, i) ==
    IF i > Len(ws) THEN Valid
    ELSE IF ws[i] = NoneWord THEN InvalidWords("All words must be strings")
    ELSE IF strip(ws[i]) = <<>> THEN InvalidWords("Words cannot be empty")
    ELSE ValidateFrom(ws, i + 1)

\* _validate_words(words)
ValidateListOnly(ws) ==
    IF ws = NotAList THEN InvalidWords("Words must be a list") ELSE Valid
_validate_words(ws) ==
    IF ws = NotAList THEN InvalidWords("Words must be a list") ELSE ValidateFrom(ws, 1)

\* The texts of _get_definition
DefinitionOf(w) == <<"Definition of ">> \o w
NotFoundFor(w) == <<"Definition not found for ">> \o w
Unavailable(w) == <<"Definition of ">> \o w \o <<" (API unavailable)">>

\* if definition: neither None nor the empty string
IsTruthyDefinition(d) == d # None /\ d # ""

\* except DictionaryServiceError
IsUnavailableNever(res) == FALSE
IsUnavailable(res) == res.kind = "DictionaryServiceError"

\* How the lookup of a disabled dictionary "ends": it is not made
NotLookedUp == [kind |-> "disabled", value |-> None, cause |-> NoException]

\* _get_definition(w) with the dictionary enabled or not, get_definition(w)
\* ending with res: the text returned, or the exception let through
_get_definition(w, enabled, res) ==
    IF ~enabled THEN [exc |-> "none", value |-> DefinitionOf(w)]
    ELSE IF res.kind = "return"
    THEN [exc |-> "none",
          value |-> IF IsTruthyDefinition(res.value) THEN <<res.value>>
                    ELSE NotFoundFor(w)]
    ELSE IF IsUnavailable(res) THEN [exc |-> "none", value |-> Unavailable(w)]
    ELSE [exc |-> res.kind, value |-> <<>>]

\* csv.writer(csvfile, delimiter=";"): the default dialect otherwise
Delimiter == ";"
CsvQuote == "\""
LineTerminator == <<"\r", "\n">>

\* QUOTE_MINIMAL: a field is quoted when it holds the delimiter, the quote
\* character or a character of the line terminator
NeedsQuotes(field) ==
    \E i \in 1..Len(field) : field[i] \in {Delimiter, CsvQuote, "\r", "\n"}

\* doublequote: a quote character inside a quoted field is written twice
RECURSIVE DoubleQuotes(_)
DoubleQuotes(field) ==
    IF field = <<>> THEN <<>>
    ELSE (IF Head(field) = CsvQuote THEN <<CsvQuote, CsvQuote>> ELSE <<Head(field)>>)
         \o DoubleQuotes(Tail(field))

WriteField(field) ==
    IF NeedsQuotes(field) THEN <<CsvQuote>> \o DoubleQuotes(field) \o <<CsvQuote>>
    ELSE field

\* writer.writerow([cleaned_word, definition]): the characters written
writerow(fields) ==
    WriteField(fields[1]) \o <<Delimiter>> \o WriteField(fields[2]) \o LineTerminator

\* list(csv.reader(file, delimiter=";")) of a file's characters s, as the
\* tests read words.csv back: the parser in state st, with the field and the
\* row being read and the rows read so far
RECURSIVE ReadCsv(_, _, _, _, _)
ReadCsv(s, st, field, row, rows) ==
    IF s = <<>>
    THEN IF st \in {"start_record", "eat_crnl"} THEN rows
         ELSE Append(rows, Append(row, field))
    ELSE
    LET c == Head(s)
        rest == Tail(s)
        newline == c \in {"\r", "\n"}
        ended == Append(rows, Append(row, field))
    IN
    CASE st = "start_record" ->
           IF newline THEN ReadCsv(rest, "eat_crnl", <<>>, <<>>, Append(rows, <<>>))
           ELSE ReadCsv(s, "start_field", <<>>, <<>>, rows)
      [] st = "start_field" ->
           IF c = CsvQuote THEN ReadCsv(rest, "in_quoted", <<>>, row, rows)
           ELSE IF c = Delimiter
           THEN ReadCsv(rest, "start_field", <<>>, Append(row, <<>>), rows)
           ELSE IF newline THEN ReadCsv(rest, "eat_crnl", <<>>, <<>>, ended)
           ELSE ReadCsv(rest, "in_field", <<c>>, row, rows)
      [] st = "in_field" ->
           IF c = Delimiter
           THEN ReadCsv(rest, "start_field", <<>>, Append(row, field), rows)
           ELSE IF newline THEN ReadCsv(rest, "eat_crnl", <<>>, <<>>, ended)
           ELSE ReadCsv(rest, "in_field", Append(field, c), row, rows)
      [] st = "in_quoted" ->
           IF c = CsvQuote THEN ReadCsv(rest, "quote_in_quoted", field, row, rows)
           ELSE ReadCsv(rest, "in_quoted", Append(field, c), row, rows)
      [] st = "quote_in_quoted" ->
           IF c = CsvQuote
           THEN ReadCsv(rest, "in_quoted", Append(field, CsvQuote), row, rows)
           ELSE IF c = Delimiter
           THEN ReadCsv(rest, "start_field", <<>>, Append(row, field), rows)
           ELSE IF newline THEN ReadCsv(rest, "eat_crnl", <<>>, <<>>, ended)
           ELSE ReadCsv(rest, "in_field", Append(field, c), row, rows)
      [] OTHER ->
           IF newline THEN ReadCsv(rest, "start_record", <<>>, <<>>, rows)
           ELSE ReadCsv(s, "start_record", <<>>, <<>>, rows)

reader(content) == ReadCsv(content, "start_record", <<>>, <<>>, <<>>)

\* The output directory and words.csv in it
NoDirectory == [dir |-> FALSE, exists |-> FALSE, content |-> <<>>]
NoCsvFile == [dir |-> TRUE, exists |-> FALSE, content |-> <<>>]
OldCsvFile ==
    [dir |-> TRUE, exists |-> TRUE, content |-> writerow(<<<<"o">>, DefinitionOf(<<"o">>)>>)]
CsvFiles == {NoDirectory, NoCsvFile, OldCsvFile}

\* What os.makedirs and open(csv_path, "w") do: both succeed, makedirs raises
\* OSError, or open does
FileSystem == {"ok", "makedirs fails", "open fails"}

\* The words handed to the exporter: plain ones, one with whitespace of every
\* kind around and inside it, one made of the characters a CSV field is quoted
\* for; blank ones and a non-string
Spaced == <<" ", "a", "\n", " ", "b", "\n">>
Quoted == <<"a", ";", "\"", "b">>
ExportInputs ==
    {<<>>, <<AB>>, <<Quoted, Spaced>>,
     <<AB, <<>>>>, <<<<" ", "\n">>, AB>>, <<AB, NoneWord, AB>>, NotAList}

\* The answers of the transport during an export: those of TransportOutcomes
\* and a full body with each kind of value under "definition"
ExportOutcomes ==
    TransportOutcomes
    \cup {[status_code |-> 200, body |-> Good(PathDepth - 1) \o <<k>>] : k \in LeafKinds}

NoExport == [kind |-> "none", msg |-> ""]

\* main() not running, no export having failed
NoRun == [pc |-> "idle", lost |-> {}]

ExportIdle ==
    /\ xpc' = "idle"
    /\ xwords' = <<>>
    /\ xidx' = 0
    /\ export_result' = NoExport
    /\ lookups' = <<>>

----------------------------------------------------------------------------
\* Actions

\* A caller calls get_definition(w), up to its first transport call.
GetDefinitionCall ==
    /\ UNCHANGED appVars
    /\ pc = "idle" /\ bpc = "idle"
    /\ calls = 0
    /\ \E w \in WordInputs : EnterGetDefinition(w)
    /\ calls' = calls + 1
    /\ UNCHANGED <<batchVars, historyL>>

\* The transport answers the pending request and get_definition runs on to its
\* end or to its next request.
Request ==
    /\ UNCHANGED appVars
    /\ pc = "request"
    /\ \E oc \in TransportOutcomes : Attempt(oc)
    /\ UNCHANGED <<batchVars, historyL, calls>>

\* The caller of get_definition takes the value or the exception.
GetDefinitionReturn ==
    /\ UNCHANGED appVars
    /\ pc = "done" /\ bpc = "idle"
    /\ LookupIdle
    /\ UNCHANGED <<limiterVars, historyL, batchVars, calls>>

\* A caller calls get_definition(w) with any short word.
GetDefinitionOfAnyWord ==
    /\ UNCHANGED appVars
    /\ pc = "idle" /\ bpc = "idle"
    /\ calls = 0
    /\ \E w \in AllWords : EnterGetDefinition(w)
    /\ calls' = calls + 1
    /\ UNCHANGED <<batchVars, historyL>>

\* The transport answers the pending request, a success with a body of any
\* shape.
RequestAnyBody ==
    /\ UNCHANGED appVars
    /\ pc = "request"
    /\ \E oc \in AnyOutcomes : Attempt(oc)
    /\ UNCHANGED <<batchVars, historyL, calls>>

\* A caller calls get_definitions(ws), up to the start of its loop.
GetDefinitionsCall ==
    /\ UNCHANGED appVars
    /\ pc = "idle" /\ bpc = "idle"
    /\ calls = 0
    /\ \E ws \in WordLists \cup {NotAList} :
         /\ words' = ws
         /\ definitions' = <<>>
         /\ outcomes' = <<>>
         /\ IF ws = NotAList
            THEN /\ batch_result' = [kind |-> "ValueError", value |-> <<>>]
                 /\ bpc' = "done"
                 /\ idx' = 0
            ELSE /\ batch_result' = NoBatchResult
                 /\ bpc' = "loop"
                 /\ idx' = 1
    /\ calls' = calls + 1
    /\ UNCHANGED <<limiterVars, historyL, lookupVars>>

\* The loop takes its next word and calls get_definition, or ends and returns.
BatchNext ==
    /\ UNCHANGED appVars
    /\ bpc = "loop" /\ pc = "idle"
    /\ IF idx > Len(words)
       THEN /\ batch_result' = [kind |-> "return", value |-> definitions]
            /\ bpc' = "done"
            /\ UNCHANGED <<words, idx, definitions, outcomes>>
            /\ UNCHANGED <<limiterVars, lookupVars>>
       ELSE /\ EnterGetDefinition(words[idx])
            /\ UNCHANGED batchVars
    /\ UNCHANGED <<calls, historyL>>

\* The loop body after get_definition ended: the try/except around the call.
BatchCollect ==
    /\ UNCHANGED appVars
    /\ bpc = "loop" /\ pc = "done"
    /\ outcomes' = Append(outcomes, [word |-> word, kind |-> result.kind,
                                     value |-> result.value])
    /\ IF result.kind = "return" \/ Absorbed(result)
       THEN /\ definitions' = Append(definitions, Slot(result))
            /\ idx' = idx + 1
            /\ UNCHANGED <<bpc, batch_result>>
       ELSE /\ batch_result' = [kind |-> result.kind, value |-> <<>>]
            /\ bpc' = "done"
            /\ UNCHANGED <<definitions, idx>>
    /\ LookupIdle
    /\ UNCHANGED <<limiterVars, historyL, words, calls>>

\* The caller of get_definitions takes the list or the exception.
GetDefinitionsReturn ==
    /\ UNCHANGED appVars
    /\ bpc = "done"
    /\ BatchIdle
    /\ UNCHANGED <<limiterVars, historyL, lookupVars, calls>>

\* The clock advances while the limiter is not being called.
LimiterTick ==
    /\ UNCHANGED appVars
    /\ now < MaxLimiterTime
    /\ now' = now + 1
    /\ UNCHANGED <<max_requests_per_second, request_times, threads, historyL, calls>>
    /\ UNCHANGED <<lookupVars, batchVars>>

\* A caller runs RateLimiter.wait_if_needed to its return.
LimiterCall ==
    /\ UNCHANGED appVars
    /\ calls < MaxLimiterCalls
    /\ \E extra \in 0..MaxJitter :
         LET w == wait_if_needed(request_times, now, max_requests_per_second, extra)
         IN  /\ w.now <= MaxLimiterTime + OneSecond
             /\ LimiterAfter(w)
             /\ admitted' = Append(admitted, w.now)
             /\ last_wait' = w
    /\ calls' = calls + 1
    /\ UNCHANGED <<lookupVars, batchVars>>

\* What a step of a thread inside wait_if_needed leaves alone
ThreadFrame ==
    /\ UNCHANGED <<now, max_requests_per_second, last_wait, lookupVars, batchVars>>
    /\ UNCHANGED appVars

\* current_time = time.time()
WaitEnter ==
    /\ calls < MaxThreadCalls
    /\ calls' = calls + 1
    /\ \E i \in Threads :
         /\ threads.of[i].pc = "idle"
         /\ threads' =
              [ThreadAt(i, "test", [NotCalling EXCEPT !.current_time = now])
                  EXCEPT !.overlapped =
                      @ \/ \E j \in Threads \ {i} : threads.of[j].pc # "idle"]
    /\ UNCHANGED <<request_times, admitted>>
    /\ ThreadFrame

\* while self.request_times and current_time - self.request_times[0] >= 1.0
WaitTest ==
    /\ \E i \in Threads :
         LET me == threads.of[i] IN
         /\ me.pc = "test"
         /\ threads' = ThreadAt(i, IF /\ request_times # <<>>
                                      /\ me.current_time - request_times[1] >= OneSecond
                                   THEN "popleft" ELSE "len", me)
    /\ UNCHANGED <<request_times, admitted, calls>>
    /\ ThreadFrame

\* self.request_times.popleft(): IndexError on a deque that another thread
\* has emptied since the test
WaitPopleft ==
    /\ \E i \in Threads :
         LET me == threads.of[i] IN
         /\ me.pc = "popleft"
         /\ IF request_times = <<>>
            THEN /\ threads' = ThreadRaised(i)
                 /\ UNCHANGED request_times
            ELSE /\ threads' = ThreadAt(i, "test", me)
                 /\ request_times' = Tail(request_times)
    /\ UNCHANGED <<admitted, calls>>
    /\ ThreadFrame

\* if len(self.request_times) >= self.max_requests_per_second
WaitLen ==
    /\ \E i \in Threads :
         LET me == threads.of[i] IN
         /\ me.pc = "len"
         /\ threads' = ThreadAt(i, IF Len(request_times) >= max_requests_per_second
                                   THEN "front" ELSE "time", me)
    /\ UNCHANGED <<request_times, admitted, calls>>
    /\ ThreadFrame

\* sleep_time = 1.0 - (current_time - self.request_times[0]); if sleep_time > 0:
\* IndexError on a deque that another thread has emptied since the test
WaitFront ==
    /\ \E i \in Threads :
         LET me == threads.of[i] IN
         /\ me.pc = "front"
         /\ IF request_times = <<>>
            THEN threads' = ThreadRaised(i)
            ELSE LET sleep_time == FrontSleepTime(request_times, me.current_time) IN
                 threads' = ThreadAt(i, IF sleep_time > 0 THEN "sleep" ELSE "time",
                                     [me EXCEPT !.sleep_time = sleep_time,
                                                !.stamp = now])
    /\ UNCHANGED <<request_times, admitted, calls>>
    /\ ThreadFrame

\* time.sleep(sleep_time) returns, sleep_time or more after it was called
WaitSleep ==
    /\ \E i \in Threads :
         LET me == threads.of[i] IN
         /\ me.pc = "sleep"
         /\ now >= me.stamp + me.sleep_time
         /\ threads' = ThreadAt(i, "time", me)
    /\ UNCHANGED <<request_times, admitted, calls>>
    /\ ThreadFrame

\* time.time(), the argument of the append
WaitTime ==
    /\ \E i \in Threads :
         LET me == threads.of[i] IN
         /\ me.pc = "time"
         /\ threads' = ThreadAt(i, "append", [me EXCEPT !.stamp = now])
    /\ UNCHANGED <<request_times, admitted, calls>>
    /\ ThreadFrame

\* self.request_times.append(...), and the call returns
WaitAppend ==
    /\ \E i \in Threads :
         LET me == threads.of[i] IN
         /\ me.pc = "append"
         /\ request_times' = Append(request_times, me.stamp)
         /\ admitted' = Append(admitted, me.stamp)
         /\ threads' = ThreadAt(i, "idle", NotCalling)
    /\ UNCHANGED calls
    /\ ThreadFrame

\* A day, or a part of one, passes.
WallTick ==
    /\ clock < MaxClock
    /\ clock' = clock + 1
    /\ UNCHANGED <<dictVars, managerVars, readerVars, exportVars>>

\* The manager's state after a call that ended with `end`
ManagerAfter(op, arg, end) ==
    /\ cache_file' = end.cache
    /\ _frequent_words' = end.fwords
    /\ fw_call' = ManagerCall(op, arg, end)
    /\ UNCHANGED cache_expiry_days

\* A caller calls get_frequent_words(); the download, if made, gets any answer.
GetFrequentWords ==
    /\ calls < MaxManagerCalls
    /\ calls' = calls + 1
    /\ \E response \in Responses :
         ManagerAfter("get_frequent_words", <<>>,
                      get_frequent_words(cache_file, _frequent_words, clock,
                                         cache_expiry_days, response))
    /\ UNCHANGED <<limiterVars, historyL, lookupVars, batchVars, clock, readerVars,
                   exportVars>>

\* A caller calls filter_frequent_words(ws).
FilterFrequentWords ==
    /\ calls < MaxManagerCalls
    /\ calls' = calls + 1
    /\ \E response \in Responses, ws \in FilterInputs :
         ManagerAfter("filter_frequent_words", ws,
                      filter_frequent_words(cache_file, _frequent_words, clock,
                                            cache_expiry_days, response, ws))
    /\ UNCHANGED <<limiterVars, historyL, lookupVars, batchVars, clock, readerVars,
                   exportVars>>

\* The Kindle logs a lookup of w with the timestamp t of its own clock, which
\* shows the computer's time or is a tick ahead of it: a new row, or the new
\* timestamp of the word's row.
KindleLookup ==
    /\ database.exists
    /\ \E w \in DbWords, t \in {u \in {clock, clock + 1} : 1 <= u /\ u <= MaxClock} :
         LET others == {r \in database.rows : r.word # w} IN
         database' = [database EXCEPT !.rows = others \cup {Row(w, t)}]
    /\ UNCHANGED <<dictVars, clock, managerVars, last_access_file, kr_call, call_times,
                   returned_rows, main, exportVars>>

\* A call of get_words_since_last_access() on a reader whose manager holds
\* the frequent words fwords
WordsSinceLastAccess(fwords) ==
    /\ \E read \in Reads(database.rows), response \in ReaderResponses :
         LET end == get_words_since_last_access(database, read, last_access_file,
                        cache_file, fwords, clock, cache_expiry_days, response)
         IN  /\ last_access_file' = end.file
             /\ cache_file' = end.cache
             /\ _frequent_words' = end.fwords
             /\ kr_call' = [op |-> "get_words_since_last_access", at |-> clock,
                             exc |-> end.exc, value |-> end.value,
                             prev |-> Before(kr_call)]
             /\ call_times' = IF kr_call.op = "get_words_since_last_access"
                                 /\ kr_call.exc = "none"
                              THEN call_times \cup {kr_call.at}
                              ELSE call_times
             /\ returned_rows' = returned_rows
                    \cup {r \in database.rows : r.word \in Range(end.value)}
    /\ UNCHANGED <<clock, database, cache_expiry_days, fw_call>>

\* A caller calls get_words_since_last_access().
GetWordsSinceLastAccess ==
    /\ calls < MaxReaderCalls
    /\ calls' = calls + 1
    /\ WordsSinceLastAccess(_frequent_words)
    /\ UNCHANGED <<limiterVars, historyL, lookupVars, batchVars, main, exportVars>>

\* A caller calls get_random_test_words(count).
GetRandomTestWords ==
    /\ calls < MaxReaderCalls
    /\ calls' = calls + 1
    /\ \E read \in Reads(database.rows), response \in ReaderResponses, count \in Counts :
         LET end == get_random_test_words(database, read, last_access_file,
                        cache_file, _frequent_words, clock, cache_expiry_days, response)
         IN  /\ last_access_file' = end.file
             /\ cache_file' = end.cache
             /\ _frequent_words' = end.fwords
             /\ \E value \in RandomTestWords(end.value, count) :
                  kr_call' = [op |-> "get_random_test_words", at |-> clock,
                              exc |-> end.exc, value |-> value,
                              prev |-> Before(kr_call)]
             /\ call_times' = IF kr_call.op = "get_words_since_last_access"
                                 /\ kr_call.exc = "none"
                              THEN call_times \cup {kr_call.at}
                              ELSE call_times
    /\ UNCHANGED <<limiterVars, historyL, lookupVars, batchVars, clock, database,
                   cache_expiry_days, fw_call, returned_rows, main, exportVars>>

\* export_words_to_csv(ws) up to the start of its loop: the validation,
\* os.makedirs and open, the file system answering as fs says
ExportStart(ws, fs) ==
         LET v == _validate_words(ws) IN
         /\ xwords' = ws
         /\ lookups' = <<>>
         /\ IF v.exc # "none"
            THEN /\ export_result' = [kind |-> v.exc, msg |-> v.msg]
                 /\ xpc' = "done"
                 /\ xidx' = 0
                 /\ UNCHANGED csv_file
            ELSE IF fs = "makedirs fails"
            THEN /\ export_result' = [kind |-> "OSError", msg |-> ""]
                 /\ xpc' = "done"
                 /\ xidx' = 0
                 /\ UNCHANGED csv_file
            ELSE IF fs = "open fails"
            THEN /\ export_result' = [kind |-> "CSVExportError",
                                      msg |-> "Failed to create CSV file"]
                 /\ xpc' = "done"
                 /\ xidx' = 0
                 /\ csv_file' = [csv_file EXCEPT !.dir = TRUE]
            ELSE /\ export_result' = NoExport
                 /\ xpc' = "loop"
                 /\ xidx' = 1
                 /\ csv_file' = [dir |-> TRUE, exists |-> TRUE, content |-> <<>>]

\* A caller calls export_words_to_csv(ws).
ExportWordsToCsv ==
    /\ xpc = "idle" /\ pc = "idle" /\ bpc = "idle"
    /\ calls = 0
    /\ calls' = calls + 1
    /\ \E ws \in ExportInputs, fs \in FileSystem : ExportStart(ws, fs)
    /\ UNCHANGED <<limiterVars, historyL, lookupVars, batchVars, clock, managerVars,
                   readerVars, use_dictionary>>

\* main() without --test, the Kindle found: it builds a KindleReader, whose
\* manager has loaded no frequent words, and calls get_words_since_last_access;
\* an exception ends the run, as does an empty list.
MainWords ==
    /\ main.pc = "idle" /\ xpc = "idle" /\ pc = "idle" /\ bpc = "idle"
    /\ calls < MaxReaderCalls
    /\ calls' = calls + 1
    /\ WordsSinceLastAccess({})
    /\ main' = [pc |-> IF kr_call'.exc = "none" /\ kr_call'.value # <<>>
                       THEN "words" ELSE "idle",
                lost |-> IF kr_call'.exc = "none" THEN {} ELSE main.lost]
    /\ UNCHANGED <<limiterVars, historyL, lookupVars, batchVars, exportVars>>

\* main() builds a CSVExporter, with a DictionaryService of its own, and calls
\* export_words_to_csv(words).
MainExport ==
    /\ main.pc = "words"
    /\ main' = [main EXCEPT !.pc = "export"]
    /\ \E fs \in FileSystem : ExportStart(kr_call.value, fs)
    /\ UNCHANGED <<limiterVars, historyL, lookupVars, batchVars, calls, clock,
                   managerVars, database, last_access_file, kr_call, call_times,
                   returned_rows, use_dictionary>>

\* The rows of the run in progress: those whose words the reader returned
RowsOfRun == {[row |-> r, at |-> kr_call.at] : r \in {s \in Where(database.rows) :
                                                       s.word \in Range(kr_call.value)}}

\* export_words_to_csv ended: main() prints the path, or the failure for a
\* CSVExportError, or leaves by its outer handler, and the run ends, and with
\* it the DictionaryService: the limiter of the next run is a new one, whose
\* time is counted from its construction.
MainExportEnd ==
    /\ main.pc = "export" /\ xpc = "done"
    /\ main' = [pc |-> "idle",
                lost |-> IF export_result.kind = "CSVExportError"
                         THEN RowsOfRun ELSE main.lost]
    /\ ExportIdle
    /\ now' = 0
    /\ request_times' = <<>>
    /\ admitted' = <<>>
    /\ last_wait' = NoWait
    /\ UNCHANGED <<max_requests_per_second, threads, lookupVars, batchVars, calls, clock,
                   managerVars, database, last_access_file, kr_call, call_times,
                   returned_rows, use_dictionary, csv_file>>

\* The row the loop writes for the word at xidx, _get_definition having given
\* the text g for the lookup that ended with res
ExportRow(w, res, g) ==
    /\ csv_file' = [csv_file EXCEPT !.content = @ \o writerow(<<w, g.value>>)]
    /\ lookups' = Append(lookups, [word |-> w, kind |-> res.kind,
                                   value |-> res.value, definition |-> g.value])
    /\ xidx' = xidx + 1
    /\ UNCHANGED <<xpc, xwords, export_result>>

\* The loop takes its next word and cleans it; _get_definition writes its row
\* without a lookup or calls get_definition; after the last word the file is
\* closed and its path returned.
ExportNext ==
    /\ xpc = "loop" /\ pc = "idle"
    /\ IF xidx > Len(xwords)
       THEN /\ export_result' = [kind |-> "return", msg |-> "words.csv"]
            /\ xpc' = "done"
            /\ UNCHANGED <<xwords, xidx, lookups, csv_file>>
            /\ UNCHANGED <<limiterVars, lookupVars>>
       ELSE LET w == _clean_word_for_csv(xwords[xidx]) IN
            IF ~use_dictionary
            THEN /\ ExportRow(w, NotLookedUp, _get_definition(w, FALSE, NotLookedUp))
                 /\ UNCHANGED <<limiterVars, lookupVars>>
            ELSE /\ EnterGetDefinition(w)
                 /\ UNCHANGED <<xpc, xwords, xidx, export_result, lookups, csv_file>>
    /\ UNCHANGED <<historyL, batchVars, calls, clock, managerVars, readerVars,
                   use_dictionary>>

\* The transport answers the pending request of the export's lookup.
ExportRequest ==
    /\ xpc = "loop" /\ pc = "request"
    /\ \E oc \in ExportOutcomes : Attempt(oc)
    /\ UNCHANGED <<batchVars, historyL, calls, appVars>>

\* The loop body after get_definition ended: the try/except of
\* _get_definition and writer.writerow.
ExportCollect ==
    /\ xpc = "loop" /\ pc = "done"
    /\ LET w == _clean_word_for_csv(xwords[xidx])
           g == _get_definition(w, TRUE, result)
       IN  IF g.exc = "none"
           THEN ExportRow(w, result, g)
           ELSE /\ export_result' = [kind |-> g.exc, msg |-> ""]
                /\ xpc' = "done"
                /\ lookups' = Append(lookups, [word |-> w, kind |-> result.kind,
                                               value |-> result.value,
                                               definition |-> <<>>])
                /\ UNCHANGED <<xwords, xidx, csv_file>>
    /\ LookupIdle
    /\ UNCHANGED <<limiterVars, historyL, batchVars, calls, clock, managerVars,
                   readerVars, use_dictionary>>

\* The caller of export_words_to_csv takes the path or the exception.
ExportReturn ==
    /\ xpc = "done"
    /\ ExportIdle
    /\ UNCHANGED <<dictVars, clock, managerVars, readerVars, use_dictionary, csv_file>>

----------------------------------------------------------------------------
\* Specifications

InitLimiter ==
    /\ now = 0
    /\ max_requests_per_second \in 1..MaxRate
    /\ request_times = <<>>
    /\ threads = NoThreads
    /\ admitted = <<>>
    /\ last_wait = NoWait
    /\ calls = 0

InitLookup ==
    /\ pc = "idle"
    /\ word = <<>>
    /\ cleaned_word = <<>>
    /\ attempt = 0
    /\ last_exception = NoException
    /\ result = NoResult
    /\ log = <<>>
    /\ entry_times = <<>>

InitBatch ==
    /\ bpc = "idle"
    /\ words = <<>>
    /\ idx = 0
    /\ definitions = <<>>
    /\ batch_result = NoBatchResult
    /\ outcomes = <<>>

\* A KindleReader that has not been called, with no device attached
InitReader ==
    /\ database = NoDatabase
    /\ last_access_file = <<>>
    /\ kr_call = NoReaderCall
    /\ call_times = {}
    /\ returned_rows = {}
    /\ main = NoRun

\* A FrequentWordsManager that has not been called, with no cache file
InitManager ==
    /\ cache_file = NoCacheFile
    /\ cache_expiry_days = DefaultCacheExpiryDays
    /\ _frequent_words = {}
    /\ fw_call = NoManagerCall

\* A CSVExporter that has not been called
InitExporter ==
    /\ xpc = "idle"
    /\ xwords = <<>>
    /\ xidx = 0
    /\ export_result = NoExport
    /\ lookups = <<>>

\* The rest of the application, not in use
InitApp ==
    /\ clock = 0
    /\ InitManager
    /\ InitReader
    /\ InitExporter
    /\ use_dictionary = TRUE
    /\ csv_file = NoDirectory

\* A DictionaryService after construction.  A behaviour follows one call of
\* its caller, get_definition(w) or get_definitions(ws), to its end.
Init ==
    /\ InitLimiter /\ InitLookup /\ InitBatch /\ InitApp
    /\ max_retries \in 0..DefaultMaxRetries

Next ==
    \/ GetDefinitionCall
    \/ Request
    \/ GetDefinitionReturn
    \/ GetDefinitionsCall
    \/ BatchNext
    \/ BatchCollect
    \/ GetDefinitionsReturn

Spec == Init /\ [][Next]_vars

\* One get_definition call of the same service, every transport call ending:
\* session.get returns a response or raises, and the lookup runs on
NextLookup == GetDefinitionCall \/ Request \/ GetDefinitionReturn

SpecFair == Init /\ [][NextLookup]_vars /\ WF_vars(Request)

\* A RateLimiter after construction, called by serialized callers at any times
InitL ==
    /\ InitLimiter /\ InitLookup /\ InitBatch /\ InitApp
    /\ max_retries = DefaultMaxRetries

NextL == LimiterTick \/ LimiterCall

SpecLimiter == InitL /\ [][NextL]_vars

\* The same RateLimiter, called by two threads whose calls run step by step,
\* one at a time or interleaved
NextT2 ==
    \/ now < MaxThreadTime /\ LimiterTick
    \/ WaitEnter
    \/ WaitTest
    \/ WaitPopleft
    \/ WaitLen
    \/ WaitFront
    \/ WaitSleep
    \/ WaitTime
    \/ WaitAppend

SpecThreads == InitL /\ [][NextT2]_vars

\* A DictionaryService built with max_retries 0 or 1, asked for one word of any
\* spelling and answered with bodies of any shape
InitA ==
    /\ InitLimiter /\ InitLookup /\ InitBatch /\ InitApp
    /\ max_retries \in 0..1

NextA == GetDefinitionOfAnyWord \/ RequestAnyBody \/ GetDefinitionReturn

SpecAnswer == InitA /\ [][NextA]_vars

\* A FrequentWordsManager after construction, over any cache file, called at
\* any times
InitC ==
    /\ InitLimiter /\ InitLookup /\ InitBatch
    /\ max_retries = DefaultMaxRetries
    /\ clock = 0
    /\ cache_file \in CacheFiles
    /\ cache_expiry_days \in 0..MaxExpiryDays
    /\ _frequent_words = {}
    /\ fw_call = NoManagerCall
    /\ InitReader
    /\ InitExporter
    /\ use_dictionary = TRUE
    /\ csv_file = NoDirectory

NextC == WallTick \/ GetFrequentWords \/ FilterFrequentWords

SpecCache == InitC /\ [][NextC]_vars

\* A KindleReader after construction, with or without a Kindle attached, over
\* any last access file, called at any times while the Kindle logs lookups
InitR ==
    /\ InitLimiter /\ InitLookup /\ InitBatch
    /\ max_retries = DefaultMaxRetries
    /\ clock = 0
    /\ cache_file \in {NoCacheFile,
                       DictCache(TextDate(isoformat(0)), ListOfWords(<<AB>>))}
    /\ cache_expiry_days = DefaultCacheExpiryDays
    /\ _frequent_words = {}
    /\ fw_call = NoManagerCall
    /\ database \in {NoDatabase, [exists |-> TRUE, rows |-> SkippedRows]}
    /\ last_access_file \in LastAccessFiles
    /\ kr_call = NoReaderCall
    /\ call_times = {}
    /\ returned_rows = {}
    /\ main = NoRun
    /\ InitExporter
    /\ use_dictionary = TRUE
    /\ csv_file = NoDirectory

NextR == WallTick \/ KindleLookup \/ GetWordsSinceLastAccess

SpecReader == InitR /\ [][NextR]_vars

\* The same reader, called for the words since the last access and for test
\* words
NextT == NextR \/ GetRandomTestWords

\* A KindleReader over a last access file that holds no date or the date of
\* an earlier run, before the frequent words were ever cached
InitT ==
    /\ InitR
    /\ cache_file = NoCacheFile
    /\ last_access_file \in {<<" ">>, isoformat(1)}

SpecTestWords == InitT /\ [][NextT]_vars

\* Runs of main() without --test, one after the other, on a computer that has
\* the frequent words cached, with a Kindle that logged its lookups before the
\* first run and a dictionary that answers every request, well or not, so that
\* no lookup is tried again; the time of a run is the tick it starts in
InitM ==
    /\ InitR
    /\ max_requests_per_second = MaxRate
    /\ database.exists
    /\ cache_file # NoCacheFile
    /\ last_access_file = <<" ">>

NextM ==
    \/ main.pc = "idle" /\ WallTick
    \/ calls = 0 /\ KindleLookup
    \/ MainWords
    \/ MainExport
    \/ ExportNext
    \/ ExportRequest /\ pc' = "done"
    \/ ExportCollect
    \/ MainExportEnd

SpecMain == InitM /\ [][NextM]_vars

\* A CSVExporter after construction, with the dictionary (a DictionaryService
\* of the default max_retries) or without it, over any output directory; a
\* behaviour follows one export to its end
InitX ==
    /\ InitLimiter /\ InitLookup /\ InitBatch
    /\ max_retries = DefaultMaxRetries
    /\ clock = 0
    /\ InitManager
    /\ InitReader
    /\ InitExporter
    /\ use_dictionary \in BOOLEAN
    /\ csv_file \in CsvFiles

NextX ==
    \/ ExportWordsToCsv
    \/ ExportNext
    \/ ExportRequest
    \/ ExportCollect
    \/ ExportReturn

SpecExport == InitX /\ [][NextX]_vars

----------------------------------------------------------------------------
\* Properties of the rate limiter (SpecLimiter)

\* How many of the first i recorded timestamps lie in the trailing one-second
\* window (t - 1.0, t] that ends at the i-th, t = admitted[i]
InWindowAt(i) ==
    Cardinality({j \in 1..i : admitted[i] - admitted[j] < OneSecond})

\* C1: whenever a wait_if_needed call returns, the trailing one-second window
\* ending at that moment holds at most max_requests_per_second recorded
\* timestamps, the one just recorded included.  The window is the limiter's
\* own: a timestamp is in it while its age is below 1.0.
C1_WindowCeiling ==
    \A i \in 1..Len(admitted) : InWindowAt(i) <= max_requests_per_second

\* A call found the window full, slept, and returned with the window full again.
C1_Witness ==
    /\ max_requests_per_second >= 2
    /\ Len(admitted) > max_requests_per_second
    /\ last_wait.slept > 0
    /\ InWindowAt(Len(admitted)) = max_requests_per_second

----------------------------------------------------------------------------
\* Properties of get_definition (Spec)

\* The transport calls, backoff sleeps and limiter calls of the current lookup
Gets == SelectSeq(log, LAMBDA e : e.ev = "get")
Sleeps == SelectSeq(log, LAMBDA e : e.ev = "sleep")
Acquires == SelectSeq(log, LAMBDA e : e.ev = "acquire")

\* The failures said to be retryable: a 5xx, a 429, or no response at all
Retryable(oc) ==
    \/ oc = ConnectionFailure
    \/ oc.status_code = 429
    \/ (500 <= oc.status_code /\ oc.status_code < 600)

\* The failures said to be terminal: a 4xx other than 404 and 429
TerminalStatus(oc) ==
    /\ 400 <= oc.status_code /\ oc.status_code < 500
    /\ oc.status_code \notin {404, 429}

\* A word that is None, empty or all whitespace
Blank(w) == w = NoneWord \/ \A i \in 1..Len(w) : w[i] \in Whitespace

\* The definition each body holds at [0].meanings[0].definitions[0].definition
Expected(b) == IF b = FullBody THEN "X" ELSE None

\* C2: a lookup never calls the transport more than max_retries + 1 times, and
\* one whose every attempt failed retryably ends only after exactly
\* max_retries + 1 transport calls, by raising DictionaryServiceError.
C2_GivesUpAfterMaxRetries ==
    /\ Len(Gets) <= max_retries + 1
    /\ (pc = "done" /\ Gets # <<>> /\ \A i \in 1..Len(Gets) : Retryable(Gets[i].oc))
         => /\ Len(Gets) = max_retries + 1
            /\ result.kind = "DictionaryServiceError"

\* With the default max_retries, four retryable failures of different kinds
\* ended the lookup with DictionaryServiceError.
C2_Witness ==
    /\ pc = "done"
    /\ max_retries = DefaultMaxRetries
    /\ Len(Gets) = 4
    /\ \A i \in 1..4 : Retryable(Gets[i].oc)
    /\ \E i, j \in 1..4 : Gets[i].oc.status_code = 503 /\ Gets[j].oc = ConnectionFailure
    /\ result.kind = "DictionaryServiceError"

\* C3: when the first k attempts failed retryably and attempt k + 1 got a 200
\* response, the lookup returns the definition of that response's body after
\* k + 1 transport calls and k backoff sleeps of 2^0, 2^1, ..., 2^(k-1) seconds.
C3_RetryThenSuccess ==
    (/\ pc = "done"
     /\ Gets # <<>>
     /\ Gets[Len(Gets)].oc.status_code = 200
     /\ \A i \in 1..(Len(Gets) - 1) : Retryable(Gets[i].oc))
    => /\ result = Returned(Expected(Gets[Len(Gets)].oc.body))
       /\ Len(Gets) = attempt + 1
       /\ Len(Sleeps) = Len(Gets) - 1
       /\ \A i \in 1..Len(Sleeps) : Sleeps[i].d = 2 ^ (i - 1)

\* Three failures, then a success on the last attempt the default allows:
\* the definition is returned after sleeps of 1, 2 and 4 seconds.
C3_Witness ==
    /\ pc = "done"
    /\ Len(Gets) = DefaultMaxRetries + 1
    /\ Gets[Len(Gets)].oc = [status_code |-> 200, body |-> FullBody]
    /\ \A i \in 1..(Len(Gets) - 1) : Retryable(Gets[i].oc)
    /\ result = Returned("X")
    /\ Len(Sleeps) = 3 /\ Sleeps[3].d = 4

\* C4: a 404 response ends the lookup at once with the value None: the
\* transport call that got it is the last thing the lookup did (no backoff
\* sleep, no limiter call and no transport call follows), so a 404 on the
\* first attempt means one transport call.
C4_NotFoundEndsLookup ==
    \A i \in 1..Len(log) :
        (log[i].ev = "get" /\ log[i].oc.status_code = 404)
        => /\ i = Len(log)
           /\ pc = "done"
           /\ result = Returned(None)
           /\ (Gets[1].oc.status_code = 404 => Len(Gets) = 1)

\* A 404 on the first attempt of a lookup that had retries left
C4_Witness ==
    /\ pc = "done"
    /\ max_retries > 0
    /\ Len(Gets) = 1 /\ Gets[1].oc.status_code = 404
    /\ result = Returned(None)

C7_RetryableIsRetried ==
    (/\ Gets # <<>>
     /\ Retryable(Gets[Len(Gets)].oc)
     /\ Len(Gets) < max_retries + 1)
    => /\ pc = "request"
       /\ attempt = Len(Gets)
       /\ Len(log) >= 2
       /\ log[Len(log) - 1].ev = "sleep"
       /\ log[Len(log)].ev = "acquire"

\* A 503, a 429 and a missing response, each followed by another attempt
C7_Witness ==
    /\ pc = "request"
    /\ Len(Gets) = 3
    /\ {Gets[i].oc.status_code : i \in 1..3} = {503, 429, 0}

\* C8: every transport call comes directly after a limiter call of its own,
\* every limiter call but the first comes directly after a backoff sleep, and
\* every backoff sleep directly after a failed transport call; a lookup that
\* has ended made as many limiter calls as transport calls.
C8_AcquireBeforeEveryAttempt ==
    /\ \A i \in 1..Len(log) :
         /\ log[i].ev = "get" => (i > 1 /\ log[i - 1].ev = "acquire")
         /\ log[i].ev = "acquire" => (i = 1 \/ log[i - 1].ev = "sleep")
         /\ log[i].ev = "sleep" => (i > 1 /\ log[i - 1].ev = "get")
    /\ pc = "done" => Len(Acquires) = Len(Gets)
    /\ pc = "request" => Len(Acquires) = Len(Gets) + 1

\* A lookup that ended after two retries: acquire, get, then twice sleep,
\* acquire, get
C8_Witness ==
    /\ pc = "done"
    /\ Len(log) = 8
    /\ Len(Gets) = 3 /\ Len(Acquires) = 3 /\ Len(Sleeps) = 2

\* C9: get_definition of None, of the empty string or of a whitespace-only
\* string raises ValueError without a transport call or a limiter call, and
\* leaves request_times as it found it.
C9_BlankWordRejected ==
    /\ pc = "request" => ~Blank(word)
    /\ (pc = "done" /\ Blank(word))
         => /\ result = RaisedValueError
            /\ log = <<>>
            /\ request_times = entry_times

\* A whitespace-only word rejected by a service whose limiter holds a timestamp
C9_Witness ==
    /\ pc = "done"
    /\ word = <<" ">>
    /\ result.kind = "ValueError"
    /\ request_times # <<>>
    /\ request_times = entry_times

----------------------------------------------------------------------------
\* Properties of get_definitions (Spec)

\* C10: get_definitions of a list of non-blank words looks the words up in
\* input order and returns one slot per word: the value the word's lookup
\* returned, or None when it raised DictionaryServiceError, which never ends
\* the loop.
C10_OneSlotPerWord ==
    (bpc # "idle" /\ words # NotAList /\ \A i \in 1..Len(words) : ~Blank(words[i]))
    => /\ batch_result.kind \in {"none", "return"}
       /\ Len(outcomes) = Len(definitions)
       /\ \A i \in 1..Len(outcomes) :
            /\ outcomes[i].word = words[i]
            /\ outcomes[i].kind \in {"return", "DictionaryServiceError"}
            /\ definitions[i] = IF outcomes[i].kind = "return"
                                THEN outcomes[i].value
                                ELSE None
       /\ bpc = "done" => /\ batch_result = [kind |-> "return", value |-> definitions]
                          /\ Len(definitions) = Len(words)

\* The first word's lookup raised DictionaryServiceError, the second word was
\* still looked up and its definition returned.
C10_Witness ==
    /\ bpc = "done"
    /\ Len(words) = 2
    /\ outcomes[1].kind = "DictionaryServiceError"
    /\ batch_result = [kind |-> "return", value |-> <<None, "X">>]

----------------------------------------------------------------------------
\* Properties of the response handling and the lookup key (SpecAnswer)

\* What a body holds at [0].meanings[0].definitions[0].definition: the value
\* there when every level down to the definition field exists, None otherwise
ValueAtPath(shape) ==
    IF Len(shape) = PathDepth
    THEN CASE shape[PathDepth] = "text"  -> "X"
           [] shape[PathDepth] = "empty" -> ""
           [] shape[PathDepth] = "num"   -> "5"
           [] OTHER                      -> None
    ELSE None

\* C11: a 200 response ends the lookup at once, whatever the shape of its JSON
\* body: it is the last event of the lookup, no exception comes out of
\* _extract_definition, and get_definition returns the value at
\* body[0].meanings[0].definitions[0].definition, or None when the body does
\* not have that path.
C11_AnyBodyIsExtracted ==
    \A i \in 1..Len(log) :
        (log[i].ev = "get" /\ log[i].oc.status_code = 200)
        => /\ i = Len(log)
           /\ pc = "done"
           /\ result = Returned(ValueAtPath(log[i].oc.body))

\* The first response was a 200 whose first entry is null, on which the
\* membership test raises TypeError; the lookup returned None after one call.
C11_Witness ==
    /\ pc = "done"
    /\ Len(Gets) = 1
    /\ Gets[1].oc = [status_code |-> 200, body |-> <<"good", "null">>]
    /\ TryExtract(Body(Gets[1].oc.body)).exc = "TypeError"
    /\ result = Returned(None)

\* The lookup key the specification names
Key(w) == lower(strip(w))

\* C12: every request of a lookup goes to the path segment quote(lower(strip(
\* word))), cleaning the cleaned word changes nothing, and any other word with
\* the same lower(strip(.)) would be sent to the same path segment.
C12_SameKeySamePath ==
    (pc # "idle" /\ ~Blank(word))
    => /\ cleaned_word = Key(word)
       /\ _clean_word(cleaned_word) = cleaned_word
       /\ \A i \in 1..Len(Gets) :
            /\ Gets[i].url = quote(Key(word))
            /\ \A w2 \in AllWords \ {NoneWord} :
                 Key(w2) = Key(word) => quote(_clean_word(w2)) = Gets[i].url

\* " A " was looked up with one retry, and both requests went to "a".
C12_Witness ==
    /\ pc = "done"
    /\ word = <<" ", "A", " ">>
    /\ Len(Gets) = 2
    /\ Gets[1].url = <<"a">> /\ Gets[2].url = <<"a">>

----------------------------------------------------------------------------
\* Properties of the raised error (Spec)

\* C13: when get_definition raises DictionaryServiceError, the cause it
\* reports is the exception of the last transport call made, and is not empty.
C13_CauseIsLastFailure ==
    result.kind = "DictionaryServiceError"
    => /\ Gets # <<>>
       /\ result.cause # NoException
       /\ result.cause = Raised(Gets[Len(Gets)].oc, Len(Gets) - 1)

\* A 503 and then a lost connection: the error reports the lost connection.
C13_Witness ==
    /\ pc = "done"
    /\ result.kind = "DictionaryServiceError"
    /\ Len(Gets) = 2
    /\ Gets[1].oc.status_code = 503
    /\ Gets[2].oc = ConnectionFailure
    /\ result.cause = ConnectionError(1)

----------------------------------------------------------------------------
\* Properties of the frequent-words manager (SpecCache)

\* A cache file that exists and parses as JSON
Parses(cache) == cache.exists /\ cache.top # "garbage"

\* A cache file that states when it was written, and is not older than days
NotOlderThan(cache, at, days) ==
    /\ cache.top = "dict"
    /\ cache.last_updated.t = "str"
    /\ IsIsoFormat(cache.last_updated.s)
    /\ at - fromisoformat(cache.last_updated.s) <= days * TicksPerDay

\* A cache file to be used: it exists, parses, is not too old and holds a list
Usable(cache, at, days) ==
    /\ Parses(cache)
    /\ NotOlderThan(cache, at, days)
    /\ cache.words.t = "list"

\* C16: get_frequent_words returns the cached list without a download when
\* the cache file exists, parses and is not older than cache_expiry_days; when
\* the file is missing, expired or invalid it downloads and, unless the download
\* fails, writes the downloaded list and the current time to the cache and
\* returns that list, and the file written is used without a download by every
\* call within the expiry window.
C16_CacheOrDownload ==
    fw_call.op = "get_frequent_words"
    => IF Usable(fw_call.before, fw_call.at, cache_expiry_days)
       THEN /\ ~fw_call.end.downloaded
            /\ fw_call.end.exc = "none"
            /\ fw_call.end.value = fw_call.before.words.v
            /\ fw_call.end.cache = fw_call.before
       ELSE /\ fw_call.end.downloaded
            /\ fw_call.end.exc \in {"none", "Exception"}
            /\ fw_call.end.exc = "none"
               => /\ fw_call.end.cache =
                        save_words_to_cache(fw_call.end.value, fw_call.at)
                  /\ \A t \in fw_call.at..MaxClock :
                        t - fw_call.at <= cache_expiry_days * TicksPerDay
                        => Usable(fw_call.end.cache, t, cache_expiry_days)

\* The items of seq at the positions in S, in their order
RECURSIVE AtPositions(_, _, _)
AtPositions(seq, S, i) ==
    IF i > Len(seq) THEN <<>>
    ELSE (IF i \in S THEN <<seq[i]>> ELSE <<>>) \o AtPositions(seq, S, i + 1)

\* C17: filter_frequent_words(words) returns the words at exactly the
\* positions whose lowercase form is not in the frequent set, in their order
\* and in their original casing, and filtering the list returned against the
\* same frequent set gives that list again.
C17_FilterIsSubsequence ==
    (fw_call.op = "filter_frequent_words" /\ fw_call.end.exc = "none")
    => /\ fw_call.end.value =
            AtPositions(fw_call.arg,
                        {i \in 1..Len(fw_call.arg) :
                            lower(fw_call.arg[i]) \notin _frequent_words}, 1)
       /\ \A response \in Responses :
            LET again == filter_frequent_words(cache_file, _frequent_words, clock,
                                               cache_expiry_days, response,
                                               fw_call.end.value)
            IN  (again.exc = "none" /\ again.fwords = _frequent_words)
                => again.value = fw_call.end.value

\* With "ab" and "ba" in the frequent set, of "bb", "ab", "ba", "Ab" only "bb"
\* was returned.
C17_Witness ==
    /\ fw_call.op = "filter_frequent_words"
    /\ fw_call.end.exc = "none"
    /\ _frequent_words = {AB, BA}
    /\ fw_call.arg = <<BB, AB, BA, UpperAB>>
    /\ fw_call.end.value = <<BB>>

----------------------------------------------------------------------------
\* Properties of the Kindle reader (SpecReader)

\* A step that is a call of get_words_since_last_access which returned
ReaderReturned ==
    /\ calls' # calls
    /\ kr_call'.op = "get_words_since_last_access"
    /\ kr_call'.exc = "none"

\* The rows read from the database, for the query result q
ReadRows(q) == SelectSeq(q, LAMBDA r : r.word # <<>>)

\* The rows looked up since the date the file holds: every row when it holds
\* none, otherwise the rows whose time is later than that date
SinceStored(q, file) ==
    IF strip(file) = <<>> THEN ReadRows(q)
    ELSE SelectSeq(ReadRows(q),
                   LAMBDA r : r.timestamp > fromisoformat(strip(file)))

\* C14: a call of get_words_since_last_access that returns, returns the words
\* of every row read from the database when the last access file holds no
\* date, and otherwise of exactly the rows whose timestamp is strictly later
\* than the stored date, in the order of the query, less the words that the
\* frequent-word filter (and the Anki filter, which removes none) takes out.
C14_WordsSinceStoredDate ==
    [][ReaderReturned
       => \E q \in QueryResults(database.rows) :
            LET since == SinceStored(q, last_access_file) IN
            kr_call'.value =
                AtPositions([i \in 1..Len(since) |-> since[i].word],
                            {i \in 1..Len(since) :
                                lower(since[i].word) \notin _frequent_words'}, 1)]_vars

\* The second call, one tick after the first: of "ba" looked up at tick 1 and
\* "bb" at tick 2, only "bb" was returned, neither being a frequent word.
C14_Witness ==
    /\ kr_call.op = "get_words_since_last_access"
    /\ kr_call.exc = "none"
    /\ call_times = {1}
    /\ kr_call.at = 2
    /\ clock = 2
    /\ _frequent_words = {AB}
    /\ database.rows = SkippedRows \cup {Row(BA, 1), Row(BB, 2)}
    /\ kr_call.value = <<BB>>

\* The claim as stated: the current time is stored, no word is returned whose
\* timestamp is not later than the time of an earlier call that returned, and
\* a word whose timestamp is not later than the time of a call that returned
\* is returned by at most one call.
C15_Original ==
    [][ReaderReturned
       => /\ last_access_file' = isoformat(clock)
          /\ read_last_access_date(last_access_file') # NoDate
          /\ \A i \in 1..Len(kr_call'.value) :
               \A r \in database.rows :
                 r.word = kr_call'.value[i]
                 => /\ \A t \in call_times' : r.timestamp > t
                    /\ r.timestamp <= clock => r \notin returned_rows]_vars

\* C15: a call of get_words_since_last_access that returns leaves the current
\* time in the last access file, which is then read as a date, and returns no
\* word whose row has a timestamp not later than the time of an earlier call
\* that returned; a row returned a second time is one stamped later than the
\* time of every earlier call that returned.
C15_NoWordFromBeforeEarlierCall ==
    [][ReaderReturned
       => /\ last_access_file' = isoformat(clock)
          /\ read_last_access_date(last_access_file') # NoDate
          /\ \A i \in 1..Len(kr_call'.value) :
               \A r \in database.rows :
                 r.word = kr_call'.value[i]
                 => \A t \in call_times' : r.timestamp > t]_vars

\* Two calls returned, at ticks 1 and 3; the second returned nothing of the
\* rows looked up at tick 1, which the first had returned and which hold no
\* frequent word.
C15_Witness ==
    /\ kr_call.op = "get_words_since_last_access"
    /\ kr_call.exc = "none"
    /\ call_times = {1}
    /\ kr_call.at = 3
    /\ last_access_file = isoformat(3)
    /\ _frequent_words = {AB}
    /\ database.rows = SkippedRows \cup {Row(BA, 1), Row(BB, 1)}
    /\ returned_rows = {Row(BA, 1), Row(BB, 1)}
    /\ kr_call.value = <<>>

----------------------------------------------------------------------------
\* CSVExporter: the file words.csv

\* A list the exporter accepts: a list of strings, none of them blank
ValidList(ws) == ws # NotAList /\ \A i \in 1..Len(ws) : ~Blank(ws[i])

\* The whitespace-normalized form of a word: its maximal runs of characters
\* that are no whitespace, joined by single spaces
RECURSIVE Tokens(_)
Tokens(w) ==
    IF w = <<>> THEN <<>>
    ELSE IF Head(w) \in Whitespace THEN Tokens(Tail(w))
    ELSE LET n == CHOOSE k \in 1..Len(w) :
                    /\ \A i \in 1..k : w[i] \notin Whitespace
                    /\ k = Len(w) \/ w[k + 1] \in Whitespace
         IN  <<SubSeq(w, 1, n)>> \o Tokens(SubSeq(w, n + 1, Len(w)))

RECURSIVE Joined(_)
Joined(ts) ==
    IF ts = <<>> THEN <<>>
    ELSE IF Len(ts) = 1 THEN ts[1]
    ELSE ts[1] \o <<" ">> \o Joined(Tail(ts))

Normalized(w) == Joined(Tokens(w))

ExportReturned == xpc = "done" /\ export_result.kind = "return"

InvalidArgument(ws) == ws = NotAList \/ \E i \in 1..Len(ws) : Blank(ws[i])

\* C19: a call of export_words_to_csv with something that is no list, or with
\* a list holding a non-string or a blank element, ends at once with
\* ValueError: the directory and words.csv are as they were, no lookup was
\* made and the rate limiter was not touched.
C19_InvalidInputHasNoEffect ==
    [][(xpc = "idle" /\ xpc' # "idle" /\ InvalidArgument(xwords'))
       => /\ xpc' = "done"
          /\ export_result'.kind = "ValueError"
          /\ csv_file' = csv_file
          /\ lookups' = <<>>
          /\ UNCHANGED <<limiterVars, lookupVars>>]_vars

\* A list with a non-string between two words was refused: the words.csv of an
\* earlier export is as it was and nothing was looked up.
C19_Witness ==
    /\ xpc = "done"
    /\ export_result = [kind |-> "ValueError", msg |-> "All words must be strings"]
    /\ xwords = <<AB, NoneWord, AB>>
    /\ csv_file = OldCsvFile
    /\ lookups = <<>>
    /\ log = <<>>
    /\ request_times = <<>>

\* The text the claim gives for the word w whose lookup ended as l says
DefinitionText(w, l) ==
    CASE l.kind = "disabled" -> <<"Definition of ">> \o w
      [] l.kind = "DictionaryServiceError" ->
           <<"Definition of ">> \o w \o <<" (API unavailable)">>
      [] l.kind = "return" /\ l.value \in {None, ""} ->
           <<"Definition not found for ">> \o w
      [] OTHER -> <<l.value>>

\* C20: an export of a valid list, once words.csv is open, ends by returning,
\* whatever the lookups do; each word gone through has its row, and the
\* definition of the row is the fetched one when it is not empty, "Definition
\* not found for <word>" when the lookup returned None or the empty string,
\* "Definition of <word> (API unavailable)" when it raised
\* DictionaryServiceError and "Definition of <word>" with the dictionary
\* disabled.
C20_FailedLookupKeepsRow ==
    /\ (xpc = "done" /\ ValidList(xwords))
       => export_result.kind \in {"return", "OSError", "CSVExportError"}
    /\ (xpc = "loop" \/ ExportReturned)
       => /\ Len(reader(csv_file.content)) = Len(lookups)
          /\ Len(lookups) = xidx - 1
          /\ \A i \in 1..Len(lookups) :
               /\ lookups[i].word = _clean_word_for_csv(xwords[i])
               /\ (lookups[i].kind = "disabled") = ~use_dictionary
               /\ lookups[i].kind \in {"disabled", "return", "DictionaryServiceError"}
               /\ lookups[i].definition = DefinitionText(lookups[i].word, lookups[i])
               /\ reader(csv_file.content)[i]
                    = <<lookups[i].word, DefinitionText(lookups[i].word, lookups[i])>>

\* An export returned after the lookup of its first word failed for good and
\* that of its second gave an empty definition: two rows, each with its text.
C20_Witness ==
    /\ ExportReturned
    /\ xwords = <<Quoted, Spaced>>
    /\ lookups[1].kind = "DictionaryServiceError"
    /\ lookups[2].kind = "return" /\ lookups[2].value = ""
    /\ reader(csv_file.content)
         = << <<Quoted, <<"Definition of ", "a", ";", "\"", "b", " (API unavailable)">> >>,
              <<<<"a", " ", "b">>, <<"Definition not found for ", "a", " ", "b">> >> >>

----------------------------------------------------------------------------
\* Properties of one wait_if_needed call (SpecLimiter)

\* A step that is a wait_if_needed call: it alone records a timestamp
IsLimiterCall == admitted' # admitted

\* The timestamps of a deque that are younger than age at the time t
Younger(times, t, age) == SelectSeq(times, LAMBDA u : t - u < age)

C22_SleepsJustLongEnough ==
    last_wait # NoWait
    => /\ Len(last_wait.pruned) < max_requests_per_second
          => last_wait.slept = 0
       /\ Len(last_wait.pruned) >= max_requests_per_second
          => /\ last_wait.slept = OneSecond - (last_wait.entered - last_wait.pruned[1])
             /\ last_wait.slept > 0
       /\ last_wait.request_times = Append(last_wait.pruned, last_wait.now)
       /\ last_wait.now >= last_wait.entered + last_wait.slept
       /\ admitted[Len(admitted)] = last_wait.now

\* A call found the ceiling of 2 reached, the older of the two timestamps half
\* a second old: it slept half a second and recorded the time after it.
C22_Witness ==
    /\ max_requests_per_second = 2
    /\ Len(last_wait.pruned) = 2
    /\ 2 * (last_wait.entered - last_wait.pruned[1]) = OneSecond
    /\ 2 * last_wait.slept = OneSecond
    /\ last_wait.now = last_wait.entered + last_wait.slept

\* C23: every wait_if_needed call, back-to-back with the one before or not,
\* adds exactly one timestamp, the clock after its sleep, and removes only
\* timestamps that were 1.0 old or older when it was entered: the deque after
\* it is the tail of the recorded timestamps, each of them once and in the
\* order recorded, and every recorded timestamp missing from it was 1.0 old or
\* older at the call's entry.
C23_OneRecordPerCall ==
    [][IsLimiterCall
       => /\ request_times' = Append(Younger(request_times, now, OneSecond), now')
          /\ admitted' = Append(admitted, now')
          /\ now' >= now + last_wait'.slept
          /\ \E k \in 1..Len(admitted') :
               /\ request_times' = SubSeq(admitted', k, Len(admitted'))
               /\ \A i \in 1..(k - 1) : now - admitted'[i] >= OneSecond]_vars

\* Three calls without a tick of the clock between them, at a ceiling of 2:
\* the third slept a second and dropped nothing, the first two timestamps
\* being younger than 1.0 when it was entered.
C23_Witness ==
    /\ max_requests_per_second = 2
    /\ Len(admitted) = 3
    /\ admitted[1] = admitted[2]
    /\ last_wait.entered = admitted[2]
    /\ last_wait.slept = OneSecond
    /\ request_times = <<admitted[1], admitted[2], admitted[3]>>

\* C26: with serialized callers request_times is in non-decreasing order and
\* never holds more than max_requests_per_second + 1 timestamps; when it holds
\* that many, the latest call slept and nothing has touched the deque since;
\* and every call's pruning leaves at most max_requests_per_second timestamps
\* for its ceiling check.
C26_DequeSortedAndBounded ==
    /\ \A i \in 1..(Len(request_times) - 1) : request_times[i] <= request_times[i + 1]
    /\ Len(request_times) <= max_requests_per_second + 1
    /\ Len(request_times) = max_requests_per_second + 1
       => /\ last_wait.slept > 0
          /\ request_times = last_wait.request_times
    /\ Len(last_wait.pruned) <= max_requests_per_second

\* At a ceiling of 1: a call that slept left two timestamps, and the call
\* after it pruned the deque back to one before it checked the ceiling.
C26_Witness ==
    /\ max_requests_per_second = 1
    /\ Len(admitted) = 3
    /\ last_wait.pruned = <<admitted[2]>>
    /\ last_wait.slept > 0
    /\ Len(request_times) = 2

----------------------------------------------------------------------------
\* Properties of a batch with an invalid word (Spec)

HasBlank(ws) == ws # NotAList /\ \E i \in 1..Len(ws) : Blank(ws[i])
FirstBlank(ws) == CHOOSE i \in 1..Len(ws) : Blank(ws[i]) /\ \A j \in 1..(i - 1) : ~Blank(ws[j])

\* What holds of a get_definitions call on a list with a None or blank word
BatchWithBlank ==
    (bpc # "idle" /\ HasBlank(words))
    => LET f == FirstBlank(words) IN
       /\ batch_result.kind \in {"none", "ValueError"}
       /\ idx <= f
       /\ Len(outcomes) <= f
       /\ Len(definitions) < f
       /\ \A i \in 1..Len(outcomes) :
            outcomes[i].word = words[i] /\ (outcomes[i].kind = "ValueError") = (i = f)
       /\ bpc = "done"
          => /\ batch_result = [kind |-> "ValueError", value |-> <<>>]
             /\ Len(outcomes) = f
             /\ f > 1 => (request_times # <<>> /\ request_times[Len(request_times)] = now)

\* C27: get_definitions of a list holding None or a blank word never returns a
\* list: it ends with ValueError at the first such word, no slot is added for
\* it, no later word is looked up, and the step that ends the batch leaves the
\* limiter as the lookups of the earlier words left it, their last slot still
\* the newest of request_times.
C27_BlankWordAbortsBatch ==
    [][/\ BatchWithBlank'
       /\ (bpc = "loop" /\ bpc' = "done" /\ batch_result'.kind = "ValueError")
          => /\ UNCHANGED limiterVars
             /\ result.kind = "ValueError"
             /\ log = <<>>]_vars

\* A batch of a word and a blank: the word was looked up, the blank raised
\* ValueError and the batch ended with it, the word's limiter slot still there.
C27_Witness ==
    /\ bpc = "done"
    /\ words = << <<"a">>, <<" ">> >>
    /\ batch_result.kind = "ValueError"
    /\ outcomes[1].kind = "return"
    /\ outcomes[2].kind = "ValueError"
    /\ request_times # <<>>

----------------------------------------------------------------------------
\* Termination of get_definition (SpecFair)

\* The lookup has ended within its budget: a value or an exception, at most
\* max_retries + 1 transport calls, at most max_retries backoff sleeps, and a
\* transport call, not a sleep, as the last thing it did
EndedWithinBudget ==
    /\ result.kind # "none"
    /\ Len(Gets) <= max_retries + 1
    /\ Len(Sleeps) <= max_retries
    /\ log # <<>> => log[Len(log)].ev = "get"
    /\ Len(Sleeps) = Len(Gets) - 1 \/ log = <<>>

\* C25: every get_definition call ends, whatever the transport answers and for
\* every max_retries from 0 on: a lookup waiting for the transport always
\* comes to its end, and a lookup at its end has returned a value or raised
\* after at most max_retries + 1 transport calls and at most max_retries
\* backoff sleeps, none of them after its last transport call.
C25_LookupTerminates ==
    /\ [](pc = "done" => EndedWithinBudget)
    /\ (pc = "request") ~> (pc = "done")

\* With max_retries 2: a lookup that ended with a 404 on its third transport
\* call, after two backoff sleeps.
C25_Witness ==
    /\ pc = "done"
    /\ max_retries = 2
    /\ Len(Gets) = 3
    /\ Len(Sleeps) = 2
    /\ result = Returned(None)
    /\ Gets[3].oc.status_code = 404

----------------------------------------------------------------------------
\* Properties of the exporter's lookups (SpecExport)

\* C30: in an export that passed _validate_words, every word handed to
\* get_definition is the cleaned word of the list, holds a character that is
\* no whitespace, and keeps one after the dictionary's own cleaning; no lookup
\* of the export ends with ValueError, so a ValueError of the export comes
\* from the validation alone, before any lookup.
C30_LookupsNeverRaiseValueError ==
    /\ (xpc = "loop" /\ pc # "idle")
       => /\ word = _clean_word_for_csv(xwords[xidx])
          /\ \E i \in 1..Len(word) : word[i] \notin Whitespace
          /\ \E i \in 1..Len(cleaned_word) : cleaned_word[i] \notin Whitespace
          /\ result.kind \in {"none", "return", "DictionaryServiceError"}
    /\ \A i \in 1..Len(lookups) :
         lookups[i].kind \in {"disabled", "return", "DictionaryServiceError"}
    /\ (xpc = "done" /\ export_result.kind = "ValueError")
       => (lookups = <<>> /\ ~ValidList(xwords))

\* The lookup of the word given as " a\n b\n" is waiting for the transport:
\* it was handed over as "a b".
C30_Witness ==
    /\ xpc = "loop"
    /\ pc = "request"
    /\ xwords[xidx] = Spaced
    /\ word = <<"a", " ", "b">>
    /\ cleaned_word = <<"a", " ", "b">>
    /\ Len(lookups) = 1

----------------------------------------------------------------------------
\* Properties of failing calls and of test words (SpecTestWords)

\* A step that is a call of get_words_since_last_access which raised
ReaderFailed ==
    /\ calls' # calls
    /\ kr_call'.op = "get_words_since_last_access"
    /\ kr_call'.exc # "none"

\* A step that is a call of get_random_test_words
TestWordsCalled ==
    /\ calls' # calls
    /\ kr_call'.op = "get_random_test_words"

\* C29: a call of get_words_since_last_access that raises (no database file,
\* a database read error, the download of the frequent words failing) and a
\* call of get_random_test_words, however it ends, leave the last access file
\* as it was, as does every step that is no call; so when a call of
\* get_words_since_last_access returns after one that raised, it returns every
\* row pending, that is later than the date stored before the failure, unless
\* the frequent-word filter takes its word out.
C29_FailedCallKeepsDate ==
    [][/\ ReaderFailed \/ TestWordsCalled \/ calls' = calls
          => last_access_file' = last_access_file
       /\ ( /\ ReaderReturned
            /\ kr_call.op = "get_words_since_last_access"
            /\ kr_call.exc # "none" )
          => \A r \in Pending(database.rows, last_access_file) :
               \/ r.word \in Range(kr_call'.value)
               \/ lower(r.word) \in _frequent_words']_vars

\* The first call raised, the download of the frequent words or the read of
\* the database failing, with "bb" pending since tick 2, later than the stored
\* date; the second call, at tick 3, returned it and stored its own time.
C29_Witness ==
    /\ kr_call.op = "get_words_since_last_access"
    /\ kr_call.exc = "none"
    /\ kr_call.at = 3
    /\ kr_call.prev.op = "get_words_since_last_access"
    /\ kr_call.prev.exc = "Exception"
    /\ call_times = {}
    /\ kr_call.value = <<BB>>
    /\ database.rows = SkippedRows \cup {Row(BA, 1), Row(BB, 2)}
    /\ last_access_file = isoformat(3)

----------------------------------------------------------------------------
\* Properties of the runs of main() (SpecMain)

\* A step in which export_words_to_csv, called by main(), ends with
\* CSVExportError
ExportFailed ==
    /\ main.pc = "export"
    /\ main'.pc = "idle"
    /\ export_result.kind = "CSVExportError"

\* A step in which a run of main() gets its words from the reader
RunGotWords ==
    /\ main.pc = "idle"
    /\ calls' # calls
    /\ kr_call'.exc = "none"

\* The claim as stated: the date is advanced before the export starts and
\* stays so when it fails with CSVExportError, and no word of the failed run
\* is returned to the next run that gets words.
C28_Original ==
    [][/\ main'.pc = "words" => last_access_file' = isoformat(clock)
       /\ ExportFailed => /\ last_access_file' = isoformat(kr_call.at)
                          /\ read_last_access_date(last_access_file') # NoDate
       /\ RunGotWords => \A l \in main.lost :
                           l.row \in database.rows
                           => l.row.word \notin Range(kr_call'.value)]_vars

\* C28: in a run of main() without --test the last access file holds the time
\* of the run when the export starts, and still does when the export has ended
\* with CSVExportError; the next run that gets words gets none of the rows of
\* the failed run that were stamped no later than the time of that run.
C28_FailedExportLosesWords ==
    [][/\ main'.pc = "words" => last_access_file' = isoformat(clock)
       /\ ExportFailed => /\ last_access_file' = isoformat(kr_call.at)
                          /\ read_last_access_date(last_access_file') # NoDate
       /\ RunGotWords => \A l \in main.lost :
                           l.row \in database.rows /\ l.row.timestamp <= l.at
                           => l.row.word \notin Range(kr_call'.value)]_vars

\* The run at tick 1 got "bb", stamped 1, and "ba", stamped 2 by a Kindle
\* whose clock is ahead, and could not open words.csv in the directory it
\* made; the run at tick 2 has got "ba" again and not "bb".
C28_Witness ==
    /\ main.pc = "words"
    /\ calls = 2
    /\ kr_call.at = 2
    /\ kr_call.prev.exc = "none"
    /\ call_times = {1}
    /\ kr_call.value = <<BA>>
    /\ database.rows = SkippedRows \cup {Row(BB, 1), Row(BA, 2)}
    /\ returned_rows = {Row(BB, 1), Row(BA, 2)}
    /\ csv_file.dir
    /\ ~csv_file.exists
    /\ last_access_file = isoformat(2)

----------------------------------------------------------------------------
\* Properties of the limiter shared by two threads (SpecThreads)

\* How many recorded timestamps lie in the trailing one-second window
\* (t - 1.0, t]
InTrailingWindow(t) ==
    Cardinality({j \in 1..Len(admitted) :
                    admitted[j] <= t /\ t - admitted[j] < OneSecond})

WindowCeiling ==
    \A i \in 1..Len(admitted) : InTrailingWindow(admitted[i]) <= max_requests_per_second

\* The claim as stated: with the steps of two threads' calls interleaved in
\* any order, no trailing one-second window ever holds more than
\* max_requests_per_second recorded timestamps.
C24_Original == WindowCeiling

\* C24: as long as no call of wait_if_needed has started while another was in
\* progress, no trailing one-second window holds more than
\* max_requests_per_second recorded timestamps, and no call has raised.
C24_CeilingWhileCallsDoNotOverlap ==
    ~threads.overlapped => WindowCeiling /\ ~threads.raised

\* The two threads have called in turn, three times in all; the third call
\* found the window full and is asleep.
C24_Witness ==
    /\ ~threads.overlapped
    /\ max_requests_per_second = 2
    /\ Len(admitted) = 2
    /\ threads.of[1].pc = "idle"
    /\ threads.of[2].pc = "sleep"
    /\ threads.of[2].sleep_time > 0
    /\ calls = 3

====
